---- MODULE Spec2Model ----
(***************************************************************************)
(* git-remote-dokuwiki: the helper session (src/src/main.rs), the history  *)
(* synthesizer (src/src/fast_import.rs) and the change projector           *)
(* (src/src/fast_export.rs) as state machines.                             *)
(*                                                                         *)
(* Strings are sequences of one-character strings, so that starts_with,    *)
(* strip_suffix, replace and the byte counts of the export stream are      *)
(* computed the way the code computes them.                                *)
(***************************************************************************)
EXTENDS Integers, Sequences, FiniteSets, TLC

VARIABLES
    \* ---- export stream decoder (fast_export::process, Phase 1) ----
    records,      \* the stream as the host wrote it, record by record
    input,        \* the bytes of the stream (reader)
    pos,          \* index of the next unread byte of the reader
    target_ref,   \* process: target_ref
    readAt,       \* positions at which read_until started a line
    xpc,          \* where process stands
    \* ---- the wiki (behind DokuWikiClient) ----
    changes,      \* page change log, oldest first: [id, version]
    mediaChanges, \* media change log, oldest first: [id, version]
    now,          \* the wiki's clock (seconds)
    foreign,      \* the page changes another writer made during the export
    rpcLog,       \* facade calls issued so far
    \* ---- the local VCS ----
    marker,       \* git config dokuwiki.lastRevision (None when unset)
    markerWrites, \* values written to dokuwiki.lastRevision
    repo,         \* origin/main..HEAD, oldest first: each commit's diff-tree
    gitLog,       \* git subcommands run by process
    \* ---- fast_export::process, Phases 2-5 ----
    namespace,    \* process: namespace (None when not set)
    dry_run,      \* process: dry_run
    would,        \* the items the `Would ...` lines on stderr name
    commits,      \* process: commits
    pending_items,\* process: pending_items
    pushed_items, \* process: pushed_items
    ci,           \* index into commits of the commit being applied
    li,           \* index of the diff line being applied (0: commit not opened)
    error,        \* the Err process returned (None when none)
    \* ---- the wiki's inventory and histories ----
    pageList,     \* dokuwiki.getPagelist rows, in the wiki's order: [id, revision]
    mediaList,    \* core.listMedia rows, in the wiki's order: [id, revision]
    hist,         \* histories, newest first: <<is_media, id>> -> [version, revision_type]
    \* ---- the helper process (main, RemoteHelper) ----
    hpc,          \* where main stands
    cmds,         \* commands parsed from the lines of stdin read so far
    in_import_batch, \* main: in_import_batch
    imported,     \* RemoteHelper: imported
    depth,        \* RemoteHelper: depth
    level,        \* VERBOSITY_LEVEL
    wikiRef,      \* tip of refs/dokuwiki/origin/heads/main (None when absent)
    out,          \* stdout
    list_query,   \* list: what get_recent_changes(since + 1) returned
    \* ---- fast_import::generate ----
    since_timestamp, \* generate: since_timestamp
    parent_sha,   \* generate: parent_sha
    all_revisions,\* generate: all_revisions
    timestamps,   \* generate: timestamps
    ti,           \* index into timestamps of the bucket being emitted
    ri,           \* index of the revision of the bucket being materialized
    blobs,        \* generate: blobs
    deleted_paths,\* generate: deleted_paths
    mark,         \* generate: mark
    last_commit_mark, \* generate: last_commit_mark
    commit_count, \* generate: commit_count
    latest_timestamp, \* generate: latest_timestamp
    warned,       \* the items generate's `Warning: could not get ... history` lines name
    \* ---- DokuWikiClient (the facade's session) ----
    cpc,          \* where DokuWikiClient::call stands
    sent,         \* requests call_inner posted, with what came back
    results,      \* what each facade call returned to its caller
    request_id,   \* DokuWikiClient: request_id
    jar,          \* DokuWikiClient: cookie_store
    cookie_file,  \* whether the file at cookie_path exists
    effects,      \* what each facade call did, in the order it did it
    \* ---- the environment ----
    env_verbose,  \* DOKUWIKI_VERBOSE, None when unset
    \* ---- the path mapping, applied to items of its own ----
    items,        \* the (is_media, id) pairs given to the mapping
    paths,        \* what page_id_to_path / media_id_to_path made of each
    descs         \* what the export side reads each path as

\* Option<T>: None is the empty sequence, Some(x) the sequence of x alone
None == << >>

Some(x) == <<x>>

Get(o) == o[1]

wikiVars == <<changes, mediaChanges, now, foreign>>
vcsVars == <<marker, markerWrites, repo, gitLog>>
drainVars == <<records, input, pos, target_ref, readAt>>
applyVars == <<commits, pending_items, pushed_items, ci, li, would>>
paramVars == <<namespace, dry_run, env_verbose>>
inventoryVars == <<pageList, mediaList, hist>>
helperVars == <<hpc, cmds, in_import_batch, imported, depth, level, wikiRef, out,
                list_query>>
genVars == <<since_timestamp, parent_sha, all_revisions, timestamps, ti, ri, blobs,
             deleted_paths, mark, last_commit_mark, commit_count, latest_timestamp,
             warned>>
facadeVars == <<cpc, sent, results, request_id, jar, cookie_file, effects>>
pathVars == <<items, paths, descs>>
nonExportVars == <<inventoryVars, helperVars, genVars, facadeVars, pathVars>>
restOfDrain == <<wikiVars, rpcLog, vcsVars, applyVars, paramVars, error, nonExportVars>>
vars == <<drainVars, xpc, wikiVars, rpcLog, vcsVars, applyVars, paramVars, error,
          nonExportVars>>

\* ------------------------------------------------------------------------
\* Strings
\* ------------------------------------------------------------------------

StartsWith(s, p) == Len(s) >= Len(p) /\ SubSeq(s, 1, Len(p)) = p

EndsWith(s, p) == Len(s) >= Len(p) /\ SubSeq(s, Len(s) - Len(p) + 1, Len(s)) = p

DropFirst(s, n) == SubSeq(s, n + 1, Len(s))

\* char::is_whitespace for the bytes the model uses
IsWhitespace(c) == c \in {" ", "\n", "\r", "\t"}

\* str::trim_end
RECURSIVE TrimEnd(_)
TrimEnd(s) ==
    IF s = << >> THEN s
    ELSE IF IsWhitespace(s[Len(s)]) THEN TrimEnd(SubSeq(s, 1, Len(s) - 1))
    ELSE s

Digits == <<"0", "1", "2", "3", "4", "5", "6", "7", "8", "9">>

IsDigit(c) == \E d \in 1..10 : Digits[d] = c

DigitValue(c) == (CHOOSE d \in 1..10 : Digits[d] = c) - 1

RECURSIVE DigitsValue(_)
DigitsValue(s) ==
    IF s = << >> THEN 0
    ELSE 10 * DigitsValue(SubSeq(s, 1, Len(s) - 1)) + DigitValue(s[Len(s)])

\* str::parse::<usize>: an optional '+', then one or more decimal digits.
\* The result is <<TRUE, n>> (Ok) or <<FALSE, 0>> (Err).
ParseUsize(s) ==
    LET body == IF s # << >> /\ s[1] = "+" THEN DropFirst(s, 1) ELSE s
    IN  IF body # << >> /\ \A i \in 1..Len(body) : IsDigit(body[i])
        THEN <<TRUE, DigitsValue(body)>>
        ELSE <<FALSE, 0>>

\* str::parse::<u8>
ParseU8(s) ==
    IF ParseUsize(s)[1] /\ ParseUsize(s)[2] <= 255 THEN ParseUsize(s) ELSE <<FALSE, 0>>

ParseU32Never(s) == <<FALSE, 0>>

\* str::parse::<u32>: at most 2^32 - 1
ParseU32(s) ==
    IF ParseUsize(s)[1] /\ ParseUsize(s)[2] \div 65536 < 65536 THEN ParseUsize(s)
    ELSE <<FALSE, 0>>

\* Verbosity::from_env: the level stored, with `l + 1` wrapping in u8
from_env(env) ==
    IF env # None /\ ParseU8(Get(env))[1] THEN (ParseU8(Get(env))[2] + 1) % 256 ELSE 0

\* The environment and VERBOSITY_LEVEL once Verbosity::from_env returned
VerbosityInit(env) ==
    /\ env_verbose = env
    /\ level = from_env(env)

\* usize formatted by {} (decimal)
RECURSIVE ToDecimal(_)
ToDecimal(n) ==
    IF n < 10 THEN <<Digits[n + 1]>>
    ELSE ToDecimal(n \div 10) \o <<Digits[(n % 10) + 1]>>

RECURSIVE Flatten(_)
Flatten(ss) == IF ss = << >> THEN << >> ELSE ss[1] \o Flatten(Tail(ss))

\* ------------------------------------------------------------------------
\* Literals of the code
\* ------------------------------------------------------------------------

CommitPrefix == <<"c", "o", "m", "m", "i", "t", " ">>
DataPrefix == <<"d", "a", "t", "a", " ">>
DoneLine == <<"d", "o", "n", "e">>
RefsTags == <<"r", "e", "f", "s", "/", "t", "a", "g", "s", "/">>
RefsHeadsMain ==
    <<"r", "e", "f", "s", "/", "h", "e", "a", "d", "s", "/", "m", "a", "i", "n">>
RefsHeadsDev == <<"r", "e", "f", "s", "/", "h", "e", "a", "d", "s", "/", "d">>
RefsTagsV == RefsTags \o <<"v">>

\* ------------------------------------------------------------------------
\* The inbound export stream, as the host VCS writes it
\* ------------------------------------------------------------------------

MaxRecords == 3

\* The stream is cut short by at most this many bytes (the host died).
MaxCut == 1

StreamRefs == {RefsHeadsMain, RefsHeadsDev, RefsTagsV}

\* Payloads: empty, embedded newlines, bytes that spell stream commands,
\* and the payload of the spec's framing scenario cut to its shape
\* (text that ends in the middle of a line).
Payloads ==
    { << >>,
      <<"a", "\n", "\n", "b">>,
      DoneLine \o <<"\n">>,
      CommitPrefix \o RefsTagsV \o <<"\n">>,
      <<"a", "b", "\n", "\n", "c", "d", "\n", "e", "f", "g", "h", "i">> }

\* Other lines of the stream: they are passed over.
OtherLines ==
    { << >>, <<"j">>, <<"m", "a", "r", "k", " ", ":", "1">>,
      DataPrefix \o <<"<", "<", "E">>, <<"d", "o", "n", "e", "x">> }

StreamRecords ==
    [k : {"commit"}, text : StreamRefs]
        \cup [k : {"data"}, text : Payloads]
        \cup [k : {"done"}, text : {<< >>}]
        \cup [k : {"line"}, text : OtherLines]

\* The header line of a record, without its newline.
RecordHeader(r) ==
    CASE r.k = "commit" -> CommitPrefix \o r.text
      [] r.k = "data" -> DataPrefix \o ToDecimal(Len(r.text))
      [] r.k = "done" -> DoneLine
      [] OTHER -> r.text

RecordBytes(r) ==
    RecordHeader(r) \o <<"\n">> \o (IF r.k = "data" THEN r.text ELSE << >>)

RECURSIVE StreamBytes(_)
StreamBytes(rs) ==
    IF rs = << >> THEN << >> ELSE RecordBytes(rs[1]) \o StreamBytes(Tail(rs))

RECURSIVE SeqsUpTo(_, _)
SeqsUpTo(S, n) ==
    IF n = 0 THEN {<< >>}
    ELSE LET shorter == SeqsUpTo(S, n - 1)
         IN  shorter \cup {Append(s, x) : s \in {t \in shorter : Len(t) = n - 1}, x \in S}

\* ------------------------------------------------------------------------
\* fast_export::process, Phase 1: drain the stream
\* ------------------------------------------------------------------------

\* BufRead::read_until(b'\n'): the index of the last byte of the line that
\* starts at p (the newline, or the last byte of the input).
RECURSIVE LineEnd(_, _)
LineEnd(bytes, p) ==
    IF p >= Len(bytes) \/ bytes[p] = "\n" THEN p ELSE LineEnd(bytes, p + 1)

\* line = String::from_utf8_lossy(&line_buf).trim_end()
LineAt(bytes, p) == TrimEnd(SubSeq(bytes, p, LineEnd(bytes, p)))

SkipCountOff(len) == 0

\* vec![0u8; len]; reader.read_exact(&mut skip_buf): the bytes skipped
SkipCount(len) == len

AtLine == xpc = "drain" /\ pos <= Len(input)

CurLine == LineAt(input, pos)

AfterLine == LineEnd(input, pos) + 1

ReadLine == readAt' = Append(readAt, pos)

\* bytes_read == 0: end of input
DrainEof ==
    /\ xpc = "drain"
    /\ pos > Len(input)
    /\ xpc' = "drained"
    /\ UNCHANGED <<records, input, pos, target_ref, readAt, restOfDrain>>

DrainCommitKeepsFirst ==
    /\ AtLine
    /\ StartsWith(CurLine, CommitPrefix)
    /\ target_ref' = IF target_ref = << >> THEN DropFirst(CurLine, 7) ELSE target_ref
    /\ pos' = AfterLine
    /\ ReadLine
    /\ UNCHANGED <<records, input, xpc, restOfDrain>>

\* line.starts_with("commit "): target_ref = line[7..]
DrainCommit ==
    /\ AtLine
    /\ StartsWith(CurLine, CommitPrefix)
    /\ target_ref' = DropFirst(CurLine, 7)
    /\ pos' = AfterLine
    /\ ReadLine
    /\ UNCHANGED <<records, input, xpc, restOfDrain>>

\* line == "done"
DrainDone ==
    /\ AtLine
    /\ ~StartsWith(CurLine, CommitPrefix)
    /\ CurLine = DoneLine
    /\ pos' = AfterLine
    /\ xpc' = "drained"
    /\ ReadLine
    /\ UNCHANGED <<records, input, target_ref, restOfDrain>>

IsDataLine ==
    /\ ~StartsWith(CurLine, CommitPrefix)
    /\ CurLine # DoneLine
    /\ StartsWith(CurLine, DataPrefix)

\* line.starts_with("data ") with a length that parses: skip len bytes
DrainData ==
    /\ AtLine
    /\ IsDataLine
    /\ LET len == ParseUsize(DropFirst(CurLine, 5))
       IN  /\ len[1]
           /\ AfterLine + SkipCount(len[2]) <= Len(input) + 1
           /\ pos' = AfterLine + SkipCount(len[2])
    /\ ReadLine
    /\ UNCHANGED <<records, input, target_ref, xpc, restOfDrain>>

\* read_exact meets the end of the input: process returns the I/O error
DrainDataShort ==
    /\ AtLine
    /\ IsDataLine
    /\ LET len == ParseUsize(DropFirst(CurLine, 5))
       IN  /\ len[1]
           /\ AfterLine + SkipCount(len[2]) > Len(input) + 1
    /\ pos' = Len(input) + 1
    /\ xpc' = "io_error"
    /\ ReadLine
    /\ UNCHANGED <<records, input, target_ref, restOfDrain>>

\* a data line whose length does not parse is passed over like any other
DrainDataBadLen ==
    /\ AtLine
    /\ IsDataLine
    /\ ~ParseUsize(DropFirst(CurLine, 5))[1]
    /\ pos' = AfterLine
    /\ ReadLine
    /\ UNCHANGED <<records, input, target_ref, xpc, restOfDrain>>

\* consume but ignore other lines
DrainOther ==
    /\ AtLine
    /\ ~StartsWith(CurLine, CommitPrefix)
    /\ CurLine # DoneLine
    /\ ~StartsWith(CurLine, DataPrefix)
    /\ pos' = AfterLine
    /\ ReadLine
    /\ UNCHANGED <<records, input, target_ref, xpc, restOfDrain>>

Drain ==
    \/ DrainEof
    \/ DrainCommit
    \/ DrainDone
    \/ DrainData
    \/ DrainDataShort
    \/ DrainDataBadLen
    \/ DrainOther


\* ------------------------------------------------------------------------
\* Item ids and paths
\* ------------------------------------------------------------------------

\* str::replace(from, to) for single characters
ReplaceChar(s, from, to) == [i \in 1..Len(s) |-> IF s[i] = from THEN to ELSE s[i]]

\* DEFAULT_EXTENSION
Extension == <<"m", "d">>

\* path_to_page_id: None when the path does not end in ".<ext>"
path_to_page_id(path, ns, extension) ==
    LET suffix == <<".">> \o extension
    IN  IF ~EndsWith(path, suffix) THEN None
        ELSE LET page_id == ReplaceChar(SubSeq(path, 1, Len(path) - Len(suffix)), "/", ":")
             IN  IF ns # None THEN Some(Get(ns) \o <<":">> \o page_id) ELSE Some(page_id)

\* is_media_file
is_media_file(path, extension) == ~EndsWith(path, <<".">> \o extension)

\* path_to_media_id
path_to_media_id(path, ns) ==
    LET media_id == ReplaceChar(path, "/", ":")
    IN  IF ns # None THEN Some(Get(ns) \o <<":">> \o media_id) ELSE Some(media_id)

\* The namespace filter applied to a page id: starts_with("<ns>:") || id == ns
PageInFilterOff(id, ns) == TRUE

PageInFilter(id, ns) ==
    ns = None \/ StartsWith(id, Get(ns) \o <<":">>) \/ id = Get(ns)

\* ------------------------------------------------------------------------
\* The wiki's answers
\* ------------------------------------------------------------------------

get_recent_changesAndMedia(since) ==
    SelectSeq(changes \o mediaChanges, LAMBDA c : c.version >= since)

\* core.getRecentPageChanges(timestamp): the changes with version >= timestamp
get_recent_changes(since) == SelectSeq(changes, LAMBDA c : c.version >= since)

\* ------------------------------------------------------------------------
\* The local VCS's answers
\* ------------------------------------------------------------------------

Reverse(s) == [i \in 1..Len(s) |-> s[Len(s) + 1 - i]]

\* git rev-list origin/main..HEAD lists the newest commit first; a commit is
\* named by its place in the range (1 is the oldest).
RevList(range) == [i \in 1..Len(range) |-> Len(range) + 1 - i]

RevListNewestFirst(range) == RevList(range)

\* git rev-list --reverse origin/main..HEAD
RevListReverse(range) == Reverse(RevList(range))

\* git diff-tree --no-commit-id --name-status -r <commit>
DiffTree(commit) == repo[commit]

\* ------------------------------------------------------------------------
\* fast_export::process, Phase 2: policy gates
\* ------------------------------------------------------------------------

Err(kind) == Some([kind |-> kind])

RefRefusalTagsOnly(ref) == IF StartsWith(ref, RefsTags) THEN Some("tags") ELSE None

\* The two ref checks: which error, if any, refuses the ref
RefRefusal(ref) ==
    IF StartsWith(ref, RefsTags) THEN Some("tags")
    ELSE IF ref # RefsHeadsMain THEN Some("branch")
    ELSE None

GateSinceInclusive(since) == since

\* client.get_recent_changes(since + 1)
GateSince(since) == since + 1

\* relevant_changes
RelevantChanges(cs, ns) == SelectSeq(cs, LAMBDA c : PageInFilter(c.id, ns))

Rpc(method, arg) == [m |-> method, arg |-> arg, commit |-> 0, line |-> 0]

NothingToPushNever(ref) == FALSE

\* target_ref.is_empty(): no commit line was drained
NothingToPush(ref) == ref = << >>

\* target_ref.is_empty(): Ok(None)
ExportNoCommit ==
    /\ xpc = "drained"
    /\ NothingToPush(target_ref)
    /\ xpc' = "nothing"
    /\ UNCHANGED <<drainVars, wikiVars, rpcLog, vcsVars, applyVars, paramVars, error,
                   nonExportVars>>

\* refs/tags/..., or any ref but refs/heads/main
ExportRefuseRef ==
    /\ xpc = "drained"
    /\ ~NothingToPush(target_ref)
    /\ RefRefusal(target_ref) # None
    /\ xpc' = "err"
    /\ error' = Err(Get(RefRefusal(target_ref)))
    /\ UNCHANGED <<drainVars, wikiVars, rpcLog, vcsVars, applyVars, paramVars,
                   nonExportVars>>

\* git merge-base --is-ancestor origin/main HEAD
ExportAncestor ==
    /\ xpc = "drained"
    /\ ~NothingToPush(target_ref)
    /\ RefRefusal(target_ref) = None
    /\ gitLog' = Append(gitLog, "merge-base")
    /\ \E is_ancestor \in BOOLEAN :
          IF is_ancestor
          THEN xpc' = "gate" /\ UNCHANGED error
          ELSE xpc' = "err" /\ error' = Err("not_integrated")
    /\ UNCHANGED <<drainVars, wikiVars, rpcLog, marker, markerWrites, repo,
                   applyVars, paramVars,
                   nonExportVars>>

\* get_last_revision_timestamp() is None: no check
ExportGateNoMarker ==
    /\ xpc = "gate"
    /\ marker = None
    /\ xpc' = "revlist"
    /\ UNCHANGED <<drainVars, wikiVars, rpcLog, vcsVars, applyVars, paramVars, error,
                   nonExportVars>>

\* client.get_recent_changes(since + 1)? fails
ExportGateRpcFails ==
    /\ xpc = "gate"
    /\ marker # None
    /\ rpcLog' = Append(rpcLog, Rpc("getRecentPageChanges", GateSince(Get(marker))))
    /\ xpc' = "err"
    /\ error' = Err("rpc")
    /\ UNCHANGED <<drainVars, wikiVars, vcsVars, applyVars, paramVars,
                   nonExportVars>>

\* the gate itself: relevant_changes empty or not
ExportGate ==
    /\ xpc = "gate"
    /\ marker # None
    /\ rpcLog' = Append(rpcLog, Rpc("getRecentPageChanges", GateSince(Get(marker))))
    /\ LET relevant_changes ==
               RelevantChanges(get_recent_changes(GateSince(Get(marker))), namespace)
       IN  IF relevant_changes # << >>
           THEN /\ xpc' = "err"
                /\ error' = Some([kind |-> "remote_changed", n |-> Len(relevant_changes)])
           ELSE /\ xpc' = "revlist"
                /\ UNCHANGED error
    /\ UNCHANGED <<drainVars, wikiVars, vcsVars, applyVars, paramVars,
                   nonExportVars>>

\* ------------------------------------------------------------------------
\* fast_export::process, Phase 3: enumerate the push
\* ------------------------------------------------------------------------

Desc(verb, kind, id) == [verb |-> verb, kind |-> kind, id |-> id]

\* item_desc of one diff line (None: the line is skipped)
ItemDesc(line, ns) ==
    LET page_id == path_to_page_id(line.path, ns, Extension)
        media_id == path_to_media_id(line.path, ns)
    IN  IF page_id # None
        THEN CASE line.status = "D" -> Some(Desc("delete", "page", Get(page_id)))
               [] line.status \in {"A", "M"} -> Some(Desc("update", "page", Get(page_id)))
               [] OTHER -> None
        ELSE IF is_media_file(line.path, Extension) /\ media_id # None
        THEN CASE line.status = "D" -> Some(Desc("delete", "media", Get(media_id)))
               [] line.status \in {"A", "M"} -> Some(Desc("update", "media", Get(media_id)))
               [] OTHER -> None
        ELSE None

Contains(s, x) == \E i \in 1..Len(s) : s[i] = x

Range(s) == {s[i] : i \in 1..Len(s)}

\* if !pending_items.contains(&desc) { pending_items.push(desc) }
PushUnique(s, x) == IF x = None \/ Contains(s, Get(x)) THEN s ELSE Append(s, Get(x))

RECURSIVE CollectLines(_, _, _)
CollectLines(pending, lines, ns) ==
    IF lines = << >> THEN pending
    ELSE CollectLines(PushUnique(pending, ItemDesc(lines[1], ns)), Tail(lines), ns)

\* "First, collect all items to be pushed"
RECURSIVE CollectItems(_, _, _)
CollectItems(pending, cs, ns) ==
    IF cs = << >> THEN pending
    ELSE CollectItems(CollectLines(pending, DiffTree(cs[1]), ns), Tail(cs), ns)

\* git rev-list exits with an error: "Failed to get commit list"
ExportRevListFails ==
    /\ xpc = "revlist"
    /\ gitLog' = Append(gitLog, "rev-list")
    /\ xpc' = "err"
    /\ error' = Err("commit_list")
    /\ UNCHANGED <<drainVars, wikiVars, rpcLog, marker, markerWrites, repo,
                   applyVars, paramVars,
                   nonExportVars>>

\* git rev-list --reverse origin/main..HEAD; no commits: Ok(None)
ExportRevList ==
    /\ xpc = "revlist"
    /\ gitLog' = Append(gitLog, "rev-list")
    /\ commits' = RevListReverse(repo)
    /\ xpc' = IF RevListReverse(repo) = << >> THEN "nothing" ELSE "collect"
    /\ UNCHANGED <<drainVars, wikiVars, rpcLog, marker, markerWrites, repo,
                   pending_items, pushed_items, ci, li, paramVars, error,
                   nonExportVars, would>>

\* a git diff-tree of the collecting loop exits with an error
ExportCollectFails ==
    /\ xpc = "collect"
    /\ gitLog' = Append(gitLog, "diff-tree")
    /\ xpc' = "err"
    /\ error' = Err("diff")
    /\ UNCHANGED <<drainVars, wikiVars, rpcLog, marker, markerWrites, repo,
                   applyVars, paramVars,
                   nonExportVars>>

\* the collecting loop over all commits
ExportCollect ==
    /\ xpc = "collect"
    /\ gitLog' = gitLog \o [i \in 1..Len(commits) |-> "diff-tree"]
    /\ pending_items' = CollectItems(<< >>, commits, namespace)
    /\ pushed_items' = << >>
    /\ ci' = 1
    /\ li' = 0
    /\ xpc' = "apply"
    /\ UNCHANGED <<drainVars, wikiVars, rpcLog, marker, markerWrites, repo,
                   commits, paramVars, error,
                   nonExportVars, would>>

\* ------------------------------------------------------------------------
\* fast_export::process, Phase 4: apply
\* ------------------------------------------------------------------------

\* push_error(failed_item, error, pushed, pending)
push_error(failed_item, pushed, pending) ==
    Some([kind |-> "push", failed |-> failed_item, pushed |-> pushed, pending |-> pending])

Retain(s, x) == SelectSeq(s, LAMBDA y : y # x)

MoveToPushedKeepsPending(desc) ==
    /\ pending_items' = pending_items
    /\ pushed_items' = IF Contains(pushed_items, desc) THEN pushed_items
                       ELSE Append(pushed_items, desc)

\* "Move from pending to pushed"
MoveToPushed(desc) ==
    /\ pending_items' = Retain(pending_items, desc)
    /\ pushed_items' = IF Contains(pushed_items, desc) THEN pushed_items
                       ELSE Append(pushed_items, desc)

InApply == xpc = "apply" /\ ci <= Len(commits)

CurDiff == DiffTree(commits[ci])

AtDiffLine == InApply /\ li >= 1 /\ li <= Len(CurDiff)

CurItem == ItemDesc(CurDiff[li], namespace)

CurDesc == Get(CurItem)

\* The facade call that applies an item
MutationOf(desc) ==
    CASE desc.kind = "page" -> "savePage"
      [] desc.kind = "media" /\ desc.verb = "delete" -> "deleteMedia"
      [] OTHER -> "saveMedia"

SendsMutationAlways(dry) == TRUE

\* if dry_run { eprintln!("  Would ...") } else { the call }
SendsMutation(dry) == ~dry

Mutations == {"savePage", "saveMedia", "deleteMedia"}

MutationCall(desc) ==
    [m |-> MutationOf(desc), arg |-> desc.id, commit |-> commits[ci], line |-> li]

\* The wiki after a mutation it accepted: a new revision at the next second
WikiApplies(desc) ==
    /\ now' = now + 1
    /\ UNCHANGED foreign
    /\ IF desc.kind = "page"
       THEN /\ changes' = Append(changes, [id |-> desc.id, version |-> now + 1])
            /\ UNCHANGED mediaChanges
       ELSE /\ mediaChanges' = Append(mediaChanges, [id |-> desc.id, version |-> now + 1])
            /\ UNCHANGED changes

\* git log -1 --format=%s and git diff-tree at the head of the apply loop
ApplyOpenCommit ==
    /\ InApply
    /\ li = 0
    /\ gitLog' = gitLog \o <<"log", "diff-tree">>
    /\ li' = 1
    /\ UNCHANGED <<drainVars, xpc, wikiVars, rpcLog, marker, markerWrites, repo,
                   commits, pending_items, pushed_items, ci, paramVars, error,
                   nonExportVars, would>>

\* the diff-tree of the apply loop exits with an error
ApplyOpenFails ==
    /\ InApply
    /\ li = 0
    /\ gitLog' = gitLog \o <<"log", "diff-tree">>
    /\ xpc' = "err"
    /\ error' = Err("diff")
    /\ UNCHANGED <<drainVars, wikiVars, rpcLog, marker, markerWrites, repo,
                   applyVars, paramVars,
                   nonExportVars>>

\* end of this commit's lines
ApplyCloseCommit ==
    /\ InApply
    /\ li > Len(CurDiff)
    /\ ci' = ci + 1
    /\ li' = 0
    /\ UNCHANGED <<drainVars, xpc, wikiVars, rpcLog, vcsVars, commits,
                   pending_items, pushed_items, paramVars, error,
                   nonExportVars, would>>

\* a status other than A, M, D: continue
ApplySkipStatus ==
    /\ AtDiffLine
    /\ CurItem = None
    /\ li' = li + 1
    /\ UNCHANGED <<drainVars, xpc, wikiVars, rpcLog, vcsVars, commits,
                   pending_items, pushed_items, ci, paramVars, error,
                   nonExportVars, would>>

\* dry_run: "Would update/delete ..." on stderr, no call
ApplyDryRun ==
    /\ AtDiffLine
    /\ CurItem # None
    /\ ~SendsMutation(dry_run)
    /\ would' = Append(would, CurDesc)
    /\ MoveToPushed(CurDesc)
    /\ li' = li + 1
    /\ UNCHANGED <<drainVars, xpc, wikiVars, rpcLog, vcsVars, commits, ci,
                   paramVars, error,
                   nonExportVars>>

\* git show <commit>:<path> exits with an error: continue
ApplyShowFails ==
    /\ AtDiffLine
    /\ CurItem # None
    /\ SendsMutation(dry_run)
    /\ CurDesc.verb = "update"
    /\ gitLog' = Append(gitLog, "show")
    /\ li' = li + 1
    /\ UNCHANGED <<drainVars, xpc, wikiVars, rpcLog, marker, markerWrites, repo,
                   commits, pending_items, pushed_items, ci, paramVars, error,
                   nonExportVars, would>>

ReadsContent == IF CurDesc.verb = "update" THEN <<"show">> ELSE << >>

\* put_page / put_attachment / delete_attachment returned Ok
ApplyOk ==
    /\ AtDiffLine
    /\ CurItem # None
    /\ SendsMutation(dry_run)
    /\ gitLog' = gitLog \o ReadsContent
    /\ rpcLog' = Append(rpcLog, MutationCall(CurDesc))
    /\ WikiApplies(CurDesc)
    /\ MoveToPushed(CurDesc)
    /\ li' = li + 1
    /\ UNCHANGED <<drainVars, xpc, marker, markerWrites, repo, commits, ci,
                   paramVars, error,
                   nonExportVars, would>>

\* the call returned Err: push_error
ApplyFails ==
    /\ AtDiffLine
    /\ CurItem # None
    /\ SendsMutation(dry_run)
    /\ gitLog' = gitLog \o ReadsContent
    /\ rpcLog' = Append(rpcLog, MutationCall(CurDesc))
    /\ xpc' = "err"
    /\ error' = push_error(CurDesc, pushed_items, pending_items)
    /\ UNCHANGED <<drainVars, wikiVars, marker, markerWrites, repo, applyVars,
                   paramVars,
                   nonExportVars>>

\* ------------------------------------------------------------------------
\* fast_export::process, Phase 5: advance the marker
\* ------------------------------------------------------------------------

AfterApply == xpc = "apply" /\ ci > Len(commits)

\* changes.first()
FirstChange(cs) == cs[1]

\* changes.last()
LatestChange(cs) == cs[Len(cs)]

\* dry_run: Ok(Some(target_ref)) without the query
AdvanceDryRun ==
    /\ AfterApply
    /\ dry_run
    /\ xpc' = "ok"
    /\ UNCHANGED <<drainVars, wikiVars, rpcLog, vcsVars, applyVars, paramVars, error,
                   nonExportVars>>

\* get_recent_changes(0) is Err: the marker is left alone
AdvanceRpcFails ==
    /\ AfterApply
    /\ ~dry_run
    /\ rpcLog' = Append(rpcLog, Rpc("getRecentPageChanges", 0))
    /\ xpc' = "ok"
    /\ UNCHANGED <<drainVars, wikiVars, vcsVars, applyVars, paramVars, error,
                   nonExportVars>>

\* get_recent_changes(0) is Ok(changes): changes.last() sets the marker
Advance ==
    /\ AfterApply
    /\ ~dry_run
    /\ rpcLog' = Append(rpcLog, Rpc("getRecentPageChanges", 0))
    /\ LET cs == get_recent_changes(0)
       IN  IF cs # << >>
           THEN /\ marker' = Some(LatestChange(cs).version)
                /\ markerWrites' = Append(markerWrites,
                                          [by |-> "export", value |-> LatestChange(cs).version])
           ELSE UNCHANGED <<marker, markerWrites>>
    /\ xpc' = "ok"
    /\ UNCHANGED <<drainVars, wikiVars, repo, gitLog, applyVars, paramVars, error,
                   nonExportVars>>

Process ==
    \/ Drain
    \/ ExportNoCommit
    \/ ExportRefuseRef
    \/ ExportAncestor
    \/ ExportGateNoMarker
    \/ ExportGateRpcFails
    \/ ExportGate
    \/ ExportRevListFails
    \/ ExportRevList
    \/ ExportCollectFails
    \/ ExportCollect
    \/ ApplyOpenCommit
    \/ ApplyOpenFails
    \/ ApplyCloseCommit
    \/ ApplySkipStatus
    \/ ApplyDryRun
    \/ ApplyShowFails
    \/ ApplyOk
    \/ ApplyFails
    \/ AdvanceDryRun
    \/ AdvanceRpcFails
    \/ Advance

\* ------------------------------------------------------------------------
\* Initial states of an export
\* ------------------------------------------------------------------------

Str_a == <<"a">>
Str_n == <<"n">>
Str_na == <<"n", ":", "a">>
Path_a == <<"a", ".", "m", "d">>
Path_i == <<"i">>

DiffLine(status, path) == [status |-> status, path |-> path]

\* The diffs a pushed commit can have: a page; a page then a media file; a
\* media deletion then a page; a type change (skipped) then a page deletion.
DiffOutputs ==
    { <<DiffLine("M", Path_a)>>,
      <<DiffLine("M", Path_a), DiffLine("M", Path_i)>>,
      <<DiffLine("D", Path_i), DiffLine("A", Path_a)>>,
      <<DiffLine("T", Path_a), DiffLine("D", Path_a)>> }

MaxCommits == 2

MaxChanges == 2

Namespaces == {None, Some(Str_n)}

\* Page ids of the change log: outside the namespace n, inside it, equal to it
ChangeIds == {Str_a, Str_na, Str_n}

\* Change logs of at most n entries, oldest first, versions in lo..hi
ChangeLogs(n, lo, hi) ==
    { s \in SeqsUpTo([id : ChangeIds, version : lo..hi], n) :
        \A i \in 1..Len(s) - 1 : s[i].version <= s[i + 1].version }

MaxVersion(s) == IF s = << >> THEN 0
                 ELSE CHOOSE v \in {s[i].version : i \in 1..Len(s)} :
                        \A i \in 1..Len(s) : s[i].version <= v

Stream(rs) == /\ records = rs[1]
              /\ input = SubSeq(StreamBytes(rs[1]), 1, Len(StreamBytes(rs[1])) - rs[2])
              /\ pos = 1
              /\ target_ref = << >>
              /\ readAt = << >>
              /\ xpc = "drain"

CommitRec(ref) == [k |-> "commit", text |-> ref]

\* Streams of a push, each with the number of bytes cut off its end: no
\* commit; a commit to main, to a tag, to a branch; a tag commit followed by
\* a commit to main; a stream that ends inside a payload.
PushStreams ==
    { <<<<[k |-> "done", text |-> << >>]>>, 0>>,
      <<<<[k |-> "data", text |-> <<"a", "\n", "\n", "b">>],
          [k |-> "line", text |-> <<"j">>]>>, 0>>,
      <<<<[k |-> "data", text |-> <<"a", "\n", "\n", "b">>],
          CommitRec(RefsHeadsMain), [k |-> "done", text |-> << >>]>>, 0>>,
      <<<<CommitRec(RefsTagsV)>>, 0>>,
      <<<<CommitRec(RefsHeadsDev),
          [k |-> "line", text |-> DataPrefix \o <<"<", "<", "E">>]>>, 0>>,
      <<<<CommitRec(RefsTagsV), CommitRec(RefsHeadsMain)>>, 0>>,
      <<<<[k |-> "line", text |-> <<"j">>], CommitRec(RefsHeadsMain),
          [k |-> "data", text |-> <<"a", "\n", "\n", "b">>]>>, 1>> }

\* The session the facade holds once RemoteHelper::new returned, no call
\* in flight
\* No path mapped
PathIdleInit ==
    /\ items = << >>
    /\ paths = << >>
    /\ descs = << >>

FacadeIdleInit ==
    /\ cpc = "idle"
    /\ sent = << >>
    /\ results = << >>
    /\ request_id = 1
    /\ jar = "session"
    /\ cookie_file = TRUE
    /\ effects = << >>

\* main has handed stdin to fast_export::process; no import ran
HelperExportInit ==
    /\ FacadeIdleInit
    /\ PathIdleInit
    /\ pageList = << >>
    /\ mediaList = << >>
    /\ hist = << >>
    /\ hpc = "export"
    /\ cmds = <<[k |-> "export", name |-> "", value |-> << >>]>>
    /\ in_import_batch = FALSE
    /\ imported = FALSE
    /\ depth = None
    /\ wikiRef = None
    /\ out = << >>
    /\ list_query = "none"
    /\ since_timestamp = None
    /\ parent_sha = None
    /\ all_revisions = << >>
    /\ timestamps = << >>
    /\ ti = 0
    /\ ri = 0
    /\ blobs = << >>
    /\ deleted_paths = << >>
    /\ mark = 0
    /\ last_commit_mark = None
    /\ commit_count = 0
    /\ latest_timestamp = 0
    /\ warned = {}

ProcessLocalsInit ==
    /\ rpcLog = << >>
    /\ markerWrites = << >>
    /\ gitLog = << >>
    /\ commits = << >>
    /\ pending_items = << >>
    /\ pushed_items = << >>
    /\ would = << >>
    /\ ci = 0
    /\ li = 0
    /\ error = None

\* Phase 1 alone, over many streams
InitDrain ==
    /\ records \in SeqsUpTo(StreamRecords, MaxRecords)
    /\ \E cut \in 0..MaxCut :
          /\ cut <= Len(StreamBytes(records))
          /\ input = SubSeq(StreamBytes(records), 1, Len(StreamBytes(records)) - cut)
    /\ pos = 1
    /\ target_ref = << >>
    /\ readAt = << >>
    /\ xpc = "drain"
    /\ changes = << >>
    /\ mediaChanges = << >>
    /\ now = 0
    /\ foreign = {}
    /\ marker = None
    /\ repo = << >>
    /\ namespace = None
    /\ dry_run = FALSE
    /\ VerbosityInit(None)
    /\ ProcessLocalsInit
    /\ HelperExportInit

SpecDrain == InitDrain /\ [][Drain]_vars

\* The gates, over many change logs; the pushed range is one commit
InitGate ==
    /\ \E rs \in PushStreams : Stream(rs)
    /\ marker \in {None, Some(1)}
    /\ changes \in ChangeLogs(MaxChanges, 1, 2)
    /\ mediaChanges = << >>
    /\ now = 2
    /\ foreign = {}
    /\ repo \in SeqsUpTo(DiffOutputs, 1)
    /\ namespace \in Namespaces
    /\ dry_run \in BOOLEAN
    /\ VerbosityInit(None)
    /\ ProcessLocalsInit
    /\ HelperExportInit

SpecGate == InitGate /\ [][Process]_vars

\* The apply loop, over many pushed ranges
InitApply ==
    /\ \E rs \in PushStreams : Stream(rs)
    /\ marker \in {None, Some(1)}
    /\ changes \in ChangeLogs(1, 1, 1)
    /\ mediaChanges = << >>
    /\ now = 1
    /\ foreign = {}
    /\ repo \in SeqsUpTo(DiffOutputs, MaxCommits)
    /\ namespace \in Namespaces
    /\ dry_run \in BOOLEAN
    /\ VerbosityInit(None)
    /\ ProcessLocalsInit
    /\ HelperExportInit

SpecApply == InitApply /\ [][Process]_vars

MaxForeign == 1

\* Another writer saves a page while process runs: the wiki records it
OtherWriterSaves ==
    /\ xpc \in {"drain", "drained", "gate", "revlist", "apply"}
    /\ Cardinality(foreign) < MaxForeign
    /\ \E id \in ChangeIds :
          /\ changes' = Append(changes, [id |-> id, version |-> now + 1])
          /\ foreign' = foreign \cup {[id |-> id, version |-> now + 1]}
    /\ now' = now + 1
    /\ UNCHANGED <<mediaChanges, drainVars, xpc, rpcLog, vcsVars, applyVars, paramVars,
                   error, nonExportVars>>

\* an export with another writer on the wiki
Race == Process \/ OtherWriterSaves

SpecRace == InitApply /\ [][Race]_vars

\* ------------------------------------------------------------------------
\* Ordering of strings and revisions
\* ------------------------------------------------------------------------

\* The characters of item ids and paths, in byte order
ByteOrder == <<".", "/", ":", "a", "b", "d", "i", "m", "n">>

Ord(c) == CHOOSE i \in 1..Len(ByteOrder) : ByteOrder[i] = c

\* String's Ord: lexicographic by bytes
RECURSIVE StrLess(_, _)
StrLess(a, b) ==
    IF a = << >> THEN b # << >>
    ELSE IF b = << >> THEN FALSE
    ELSE IF a[1] # b[1] THEN Ord(a[1]) < Ord(b[1])
    ELSE StrLess(Tail(a), Tail(b))

\* ids.sort(); ids.dedup(): the distinct strings in ascending order
RECURSIVE SortDedup(_)
SortDedup(S) ==
    IF S = {} THEN << >>
    ELSE LET least == CHOOSE x \in S : \A y \in S \ {x} : StrLess(x, y)
         IN  <<least>> \o SortDedup(S \ {least})

Front(s) == SubSeq(s, 1, Len(s) - 1)

\* sort_by_key(|r| r.version): stable, ascending
RECURSIVE SortByVersion(_)
SortByVersion(s) ==
    IF s = << >> THEN << >>
    ELSE LET sorted == SortByVersion(Front(s))
             x == s[Len(s)]
             k == Cardinality({i \in 1..Len(sorted) : sorted[i].version <= x.version})
         IN  SubSeq(sorted, 1, k) \o <<x>> \o SubSeq(sorted, k + 1, Len(sorted))

\* sort_by_key(|r| Reverse(r.version)): stable, descending
RECURSIVE SortByVersionDesc(_)
SortByVersionDesc(s) ==
    IF s = << >> THEN << >>
    ELSE LET sorted == SortByVersionDesc(Front(s))
             x == s[Len(s)]
             k == Cardinality({i \in 1..Len(sorted) : sorted[i].version >= x.version})
         IN  SubSeq(sorted, 1, k) \o <<x>> \o SubSeq(sorted, k + 1, Len(sorted))

\* The sequences that list each element of S once
Orders(S) ==
    { s \in [1..Cardinality(S) -> S] : \A i, j \in 1..Cardinality(S) : s[i] = s[j] => i = j }

RECURSIVE SortInts(_)
SortInts(S) ==
    IF S = {} THEN << >>
    ELSE LET least == CHOOSE x \in S : \A y \in S : x <= y
         IN  <<least>> \o SortInts(S \ {least})

RECURSIVE ReverseSortInts(_)
ReverseSortInts(S) ==
    IF S = {} THEN << >>
    ELSE LET most == CHOOSE x \in S : \A y \in S : y <= x
         IN  <<most>> \o ReverseSortInts(S \ {most})

\* ------------------------------------------------------------------------
\* fast_import: paths
\* ------------------------------------------------------------------------

\* strip the "<ns>:" prefix if present
StripNamespace(id, ns) ==
    IF ns # None /\ StartsWith(id, Get(ns) \o <<":">>)
    THEN DropFirst(id, Len(Get(ns)) + 1)
    ELSE id

\* page_id_to_path
page_id_to_path(page_id, ns, extension) ==
    ReplaceChar(StripNamespace(page_id, ns), ":", "/") \o <<".">> \o extension

\* media_id_to_path
media_id_to_path(media_id, ns) == ReplaceChar(StripNamespace(media_id, ns), ":", "/")

\* The namespace filter applied to a media id: starts_with("<ns>:")
MediaInFilter(id, ns) == ns = None \/ StartsWith(id, Get(ns) \o <<":">>)

\* ------------------------------------------------------------------------
\* The wiki's answers to import
\* ------------------------------------------------------------------------

\* core.getRecentMediaChanges(timestamp)
get_recent_media_changes(since) == SelectSeq(mediaChanges, LAMBDA c : c.version >= since)

\* core.getPageHistory(page): newest first
get_page_versions(id) == hist[<<FALSE, id>>]

\* core.getMediaHistory(media): newest first
get_media_versions(id) == hist[<<TRUE, id>>]

\* ------------------------------------------------------------------------
\* fast_import::generate: revision gathering
\* ------------------------------------------------------------------------

Revision(id, version, revision_type, is_media) ==
    [id |-> id, version |-> version, revision_type |-> revision_type, is_media |-> is_media]

\* The versions of one history, in the order the wiki gave them, as revisions
Revisions(id, versions, is_media) ==
    [i \in 1..Len(versions) |->
        Revision(id, versions[i].version, versions[i].revision_type, is_media)]

NewerThan(revs, since) == SelectSeq(revs, LAMBDA r : r.version > since)

\* if ver.version > since { all_revisions.push(...) }
RetainSinceInclusive(revs, since) == SelectSeq(revs, LAMBDA r : r.version >= since)

RetainSince(revs, since) == NewerThan(revs, since)

\* page_ids / media_ids of an incremental import
RecentPageIds(since, ns) ==
    SortDedup({c.id : c \in {x \in Range(get_recent_changes(since)) : PageInFilter(x.id, ns)}})

RecentMediaIds(since, ns) ==
    SortDedup({c.id : c \in {x \in Range(get_recent_media_changes(since)) :
                                MediaInFilter(x.id, ns)}})

\* Incremental: the histories of the changed items, newer than since; an
\* item whose history call fails (its key is in failing) adds nothing.
RECURSIVE IncrementalRevisions(_, _, _, _)
IncrementalRevisions(ids, is_media, since, failing) ==
    IF ids = << >> THEN << >>
    ELSE (IF <<is_media, ids[1]>> \in failing THEN << >>
          ELSE RetainSince(Revisions(ids[1], hist[<<is_media, ids[1]>>], is_media), since))
         \o IncrementalRevisions(Tail(ids), is_media, since, failing)

\* Full, pages: every version; a failed history call gives the inventory
\* row's revision as one "E" revision.
RECURSIVE FullPageRevisions(_, _, _)
FullPageRevisions(pages, ns, failing) ==
    IF pages = << >> THEN << >>
    ELSE LET page == pages[1]
         IN  (IF ~PageInFilter(page.id, ns) THEN << >>
              ELSE IF <<FALSE, page.id>> \in failing
              THEN <<Revision(page.id, page.revision, "E", FALSE)>>
              ELSE Revisions(page.id, get_page_versions(page.id), FALSE))
             \o FullPageRevisions(Tail(pages), ns, failing)

\* Full, media: every version; an empty history gives the inventory row's
\* revision as one "C" revision, a failed history call as one "E" revision.
RECURSIVE FullMediaRevisions(_, _, _)
FullMediaRevisions(media_files, ns, failing) ==
    IF media_files = << >> THEN << >>
    ELSE LET media == media_files[1]
         IN  (IF ~MediaInFilter(media.id, ns) THEN << >>
              ELSE IF <<TRUE, media.id>> \in failing
              THEN <<Revision(media.id, media.revision, "E", TRUE)>>
              ELSE IF get_media_versions(media.id) = << >>
              THEN <<Revision(media.id, media.revision, "C", TRUE)>>
              ELSE Revisions(media.id, get_media_versions(media.id), TRUE))
             \o FullMediaRevisions(Tail(media_files), ns, failing)

\* The history calls of a gathering, one per item
HistoryCalls(ids, method) == [i \in 1..Len(ids) |-> Rpc(method, ids[i])]

Ids(rows) == [i \in 1..Len(rows) |-> rows[i].id]

\* ------------------------------------------------------------------------
\* fast_import::generate: depth limit, ordering, buckets
\* ------------------------------------------------------------------------

\* revs.sort_by_key(Reverse(version)); revs.truncate(max_depth)
KeepNewest(revs, max_depth) ==
    LET sorted == SortByVersionDesc(revs)
    IN  SubSeq(sorted, 1, IF max_depth < Len(sorted) THEN max_depth ELSE Len(sorted))

\* revisions_by_id, walked in the order `order` of its keys
RECURSIVE LimitDepth(_, _, _)
LimitDepth(revs, order, max_depth) ==
    IF order = << >> THEN << >>
    ELSE KeepNewest(SelectSeq(revs, LAMBDA r : r.id = order[1]), max_depth)
         \o LimitDepth(revs, Tail(order), max_depth)

TimestampsUnsorted(revs) == ReverseSortInts({revs[i].version : i \in 1..Len(revs)})

\* revisions_by_time.keys(), sorted
Timestamps(revs) == SortInts({revs[i].version : i \in 1..Len(revs)})

\* revisions_by_time[&timestamp]
Bucket(timestamp) == SelectSeq(all_revisions, LAMBDA r : r.version = timestamp)

\* ------------------------------------------------------------------------
\* stdout
\* ------------------------------------------------------------------------

\* writeln!(out, text)
TextLine(text) ==
    [t |-> "line", mark |-> 0, ts |-> 0, from |-> << >>, ops |-> << >>, text |-> text,
     ref |-> << >>]

\* blob / mark :m / data n / bytes
BlobRecord(blob_mark) ==
    [t |-> "blob", mark |-> blob_mark, ts |-> 0, from |-> << >>, ops |-> << >>, text |-> "",
     ref |-> << >>]

\* commit <ref> / mark :m / author, committer at timestamp / data / from / M.. / D..
CommitRecord(commit_mark, timestamp, from, ops) ==
    [t |-> "commit", mark |-> commit_mark, ts |-> timestamp, from |-> from, ops |-> ops,
     text |-> "", ref |-> <<"refs/dokuwiki/origin/heads/main">>]

\* ok <ref>
OkLine(ref) ==
    [t |-> "ok", mark |-> 0, ts |-> 0, from |-> << >>, ops |-> << >>, text |-> "",
     ref |-> ref]

FromLineMarkBefore(last, sha) ==
    IF last # None THEN <<"mark", Get(last) - 1>>
    ELSE IF sha # None THEN <<"sha", 0>>
    ELSE << >>

FromLineShaFirst(last, sha) ==
    IF sha # None THEN <<"sha", 0>>
    ELSE IF last # None THEN <<"mark", Get(last)>>
    ELSE << >>

\* "from :<parent>", else "from <sha>", else no from line
FromLine(last, sha) ==
    IF last # None THEN <<"mark", Get(last)>>
    ELSE IF sha # None THEN <<"sha", 0>>
    ELSE << >>

\* M 100644 :<blob_mark> <path>
ModifyOps(bs) == [i \in 1..Len(bs) |-> <<"M", bs[i][2], bs[i][1]>>]

\* D <path>
DeleteOps(ps) == [i \in 1..Len(ps) |-> <<"D", 0, ps[i]>>]

\* ------------------------------------------------------------------------
\* main: the command loop
\* ------------------------------------------------------------------------

MaxCmds == 2

OptionValues == {<<"1">>, <<"2">>, <<"x">>}

Command(k, name, value) == [k |-> k, name |-> name, value |-> value]

Last(s) == s[Len(s)]

notHelper == <<drainVars, xpc, applyVars, paramVars, error, wikiVars, repo, gitLog,
               inventoryVars, facadeVars, pathVars>>

\* read_line returned a line and parse_command gave c
Reads(c) ==
    /\ hpc = "idle"
    /\ Len(cmds) < MaxCmds
    /\ cmds' = Append(cmds, c)

\* helper.capabilities
CmdCapabilities ==
    /\ Reads(Command("capabilities", "", << >>))
    /\ out' = out \o <<TextLine("import"), TextLine("export"), TextLine("option"),
                       TextLine("refspec refs/heads/*:refs/dokuwiki/origin/heads/*"),
                       TextLine("")>>
    /\ UNCHANGED <<hpc, in_import_batch, imported, depth, level, wikiRef, list_query,
                   rpcLog, marker, markerWrites, genVars, notHelper>>

ForceImport == <<TextLine("@refs/heads/main HEAD"), TextLine("? refs/heads/main")>>

ShaLine == <<TextLine("<sha> refs/heads/main")>>

\* .unwrap_or(false): what has_new_changes is when the query failed
HasNewOnFailure == FALSE

\* list, after has_new_changes is known
ListReply(has_new_changes) ==
    (IF has_new_changes THEN ForceImport
     ELSE IF wikiRef # None THEN ShaLine
     ELSE ForceImport) \o <<TextLine("")>>

\* helper.list: no dokuwiki.lastRevision
CmdListNoMarker ==
    /\ Reads(Command("list", "", << >>))
    /\ marker = None
    /\ list_query' = "none"
    /\ out' = out \o ListReply(TRUE)
    /\ UNCHANGED <<hpc, in_import_batch, imported, depth, level, wikiRef,
                   rpcLog, marker, markerWrites, genVars, notHelper>>

\* helper.list: get_recent_changes(since + 1) is Err
CmdListRpcFails ==
    /\ Reads(Command("list", "", << >>))
    /\ marker # None
    /\ rpcLog' = Append(rpcLog, Rpc("getRecentPageChanges", Get(marker) + 1))
    /\ list_query' = "failed"
    /\ out' = out \o ListReply(HasNewOnFailure)
    /\ UNCHANGED <<hpc, in_import_batch, imported, depth, level, wikiRef,
                   marker, markerWrites, genVars, notHelper>>

\* helper.list: get_recent_changes(since + 1) is Ok(changes)
CmdList ==
    /\ Reads(Command("list", "", << >>))
    /\ marker # None
    /\ rpcLog' = Append(rpcLog, Rpc("getRecentPageChanges", Get(marker) + 1))
    /\ LET recent == get_recent_changes(Get(marker) + 1)
       IN  /\ list_query' = IF recent = << >> THEN "empty" ELSE "nonempty"
           /\ out' = out \o ListReply(recent # << >>)
    /\ UNCHANGED <<hpc, in_import_batch, imported, depth, level, wikiRef,
                   marker, markerWrites, genVars, notHelper>>

set_levelAlways(current, requested) == requested

\* Verbosity::set_level: only increase
set_level(current, requested) == IF requested > current THEN requested ELSE current

\* helper.set_option("verbosity", value)
CmdOptionVerbosity ==
    /\ \E value \in OptionValues :
          /\ Reads(Command("option", "verbosity", value))
          /\ level' = IF ParseU8(value)[1] THEN set_level(level, ParseU8(value)[2])
                       ELSE level
    /\ out' = Append(out, TextLine("ok"))
    /\ UNCHANGED <<hpc, in_import_batch, imported, depth, wikiRef, list_query,
                   rpcLog, marker, markerWrites, genVars, notHelper>>

\* helper.set_option("depth", value)
CmdOptionDepth ==
    /\ \E value \in OptionValues :
          /\ Reads(Command("option", "depth", value))
          /\ depth' = IF ParseU32(value)[1] THEN Some(ParseU32(value)[2]) ELSE depth
    /\ out' = Append(out, TextLine("ok"))
    /\ UNCHANGED <<hpc, in_import_batch, imported, level, wikiRef, list_query,
                   rpcLog, marker, markerWrites, genVars, notHelper>>

\* helper.set_option(any other name, value)
CmdOptionUnsupported ==
    /\ Reads(Command("option", "progress", <<"1">>))
    /\ out' = Append(out, TextLine("unsupported"))
    /\ UNCHANGED <<hpc, in_import_batch, imported, depth, level, wikiRef, list_query,
                   rpcLog, marker, markerWrites, genVars, notHelper>>

\* if self.imported { return Ok(()) }
AlreadyImportedNever == FALSE

AlreadyImported == imported

\* Command::Import, first time: helper.import reads the marker and the tip
CmdImport ==
    /\ Reads(Command("import", "", << >>))
    /\ ~AlreadyImported
    /\ in_import_batch' = TRUE
    /\ since_timestamp' = marker
    /\ parent_sha' = wikiRef
    /\ hpc' = "gather"
    /\ UNCHANGED <<imported, depth, level, wikiRef, out, list_query,
                   all_revisions, timestamps, ti, ri, blobs, deleted_paths, mark,
                   last_commit_mark, commit_count, latest_timestamp, warned,
                   rpcLog, marker, markerWrites, notHelper>>

\* Command::Import when imported is set
CmdImportAgain ==
    /\ Reads(Command("import", "", << >>))
    /\ AlreadyImported
    /\ in_import_batch' = TRUE
    /\ UNCHANGED <<hpc, imported, depth, level, wikiRef, out, list_query,
                   rpcLog, marker, markerWrites, genVars, notHelper>>

\* Command::Export: control passes to fast_export::process over the rest of
\* stdin (SpecDrain, SpecGate, SpecApply)
CmdExport ==
    /\ Reads(Command("export", "", << >>))
    /\ hpc' = "export"
    /\ xpc' = "drain"
    /\ UNCHANGED <<in_import_batch, imported, depth, level, wikiRef, out, list_query,
                   rpcLog, marker, markerWrites, genVars,
                   drainVars, applyVars, paramVars, error, wikiVars, repo, gitLog,
                   inventoryVars, facadeVars, pathVars>>

helperButHpcOut == <<cmds, in_import_batch, imported, depth, level, wikiRef, list_query>>

restOfExportReply == <<drainVars, xpc, wikiVars, rpcLog, vcsVars, applyVars, paramVars,
                       error, inventoryVars, helperButHpcOut, genVars, facadeVars,
                       pathVars>>

ExportReplyAlways(status, pushed_ref) == <<OkLine(pushed_ref), TextLine("")>>

\* helper.export after process returned: `?` leaves on Err before anything
\* is written; otherwise `ok <ref>` and a blank line
ExportReply(status, pushed_ref) ==
    IF status \in {"err", "io_error"} THEN << >>
    ELSE <<OkLine(pushed_ref), TextLine("")>>

\* helper.export: process returned Ok(Some(target_ref)); main returns Ok(())
ExportReplyOk ==
    /\ hpc = "export"
    /\ xpc = "ok"
    /\ out' = out \o ExportReply(xpc, target_ref)
    /\ hpc' = "exit_ok"
    /\ UNCHANGED restOfExportReply

\* helper.export: process returned Ok(None). `ok {}` is given no ref to
\* print: the reply is either none or an ok line without a ref.
ExportReplyNothing ==
    /\ hpc = "export"
    /\ xpc = "nothing"
    /\ out' \in {out, out \o ExportReply(xpc, << >>)}
    /\ hpc' = "exit_ok"
    /\ UNCHANGED restOfExportReply

\* helper.export: process returned Err; `?` ends export and main
ExportFails ==
    /\ hpc = "export"
    /\ xpc \in {"err", "io_error"}
    /\ out' = out \o ExportReply(xpc, target_ref)
    /\ hpc' = "exit_err"
    /\ UNCHANGED restOfExportReply

\* Command::Empty
AfterEmptyGoesOn(batch) == "idle"

\* Command::Empty: the blank line ends main inside an import batch only
AfterEmpty(batch) == IF batch THEN "exit_ok" ELSE "idle"

CmdEmpty ==
    /\ Reads(Command("empty", "", << >>))
    /\ hpc' = AfterEmpty(in_import_batch)
    /\ UNCHANGED <<in_import_batch, imported, depth, level, wikiRef, out, list_query,
                   rpcLog, marker, markerWrites, genVars, notHelper>>

\* Command::Unknown
CmdUnknown ==
    /\ Reads(Command("unknown", "", << >>))
    /\ UNCHANGED <<hpc, in_import_batch, imported, depth, level, wikiRef, out,
                   list_query, rpcLog, marker, markerWrites, genVars, notHelper>>

\* bytes_read == 0
Eof ==
    /\ hpc = "idle"
    /\ hpc' = "exit_ok"
    /\ UNCHANGED <<cmds, in_import_batch, imported, depth, level, wikiRef, out,
                   list_query, rpcLog, marker, markerWrites, genVars, notHelper>>

\* ------------------------------------------------------------------------
\* RemoteHelper::import and fast_import::generate, step by step
\* ------------------------------------------------------------------------

helperRest == <<cmds, in_import_batch, depth, level, wikiRef, list_query>>

\* generate returned Ok(latest_revision): the tail of RemoteHelper::import
ImportReturn(latest_revision) ==
    /\ IF latest_revision # None
       THEN /\ marker' = latest_revision
            /\ markerWrites' = Append(markerWrites,
                                      [by |-> "import", value |-> Get(latest_revision)])
       ELSE UNCHANGED <<marker, markerWrites>>
    /\ imported' = TRUE
    /\ hpc' = "idle"
    /\ since_timestamp' = None
    /\ parent_sha' = None
    /\ all_revisions' = << >>
    /\ timestamps' = << >>
    /\ ti' = 0
    /\ ri' = 0
    /\ blobs' = << >>
    /\ deleted_paths' = << >>
    /\ mark' = 0
    /\ last_commit_mark' = None
    /\ commit_count' = 0
    /\ latest_timestamp' = 0
    /\ warned' = {}

Keys(ids, is_media) == {<<is_media, ids[i]>> : i \in 1..Len(ids)}

NamespaceArg == IF namespace # None THEN Get(namespace) ELSE << >>

\* The facade calls of an incremental gathering, in order
IncrementalCalls(since, page_ids, media_ids) ==
    <<Rpc("getRecentPageChanges", since)>> \o HistoryCalls(page_ids, "getPageHistory")
    \o <<Rpc("getRecentMediaChanges", since)>> \o HistoryCalls(media_ids, "getMediaHistory")

\* The facade calls of a full gathering, in order
FullCalls(page_ids, media_ids) ==
    <<Rpc("getPagelist", NamespaceArg)>> \o HistoryCalls(page_ids, "getPageHistory")
    \o <<Rpc("listMedia", NamespaceArg)>> \o HistoryCalls(media_ids, "getMediaHistory")

FullPageIds == Ids(SelectSeq(pageList, LAMBDA r : PageInFilter(r.id, namespace)))

FullMediaIds == Ids(SelectSeq(mediaList, LAMBDA r : MediaInFilter(r.id, namespace)))

GatherCalls ==
    IF since_timestamp # None
    THEN IncrementalCalls(Get(since_timestamp),
                          RecentPageIds(Get(since_timestamp), namespace),
                          RecentMediaIds(Get(since_timestamp), namespace))
    ELSE FullCalls(FullPageIds, FullMediaIds)

\* An inventory or change-list call is Err: `?` ends generate, import and main
GenGatherFails ==
    /\ hpc = "gather"
    /\ \E n \in 1..Len(GatherCalls) :
          /\ GatherCalls[n].m \in {"getRecentPageChanges", "getRecentMediaChanges",
                                   "getPagelist", "listMedia"}
          /\ rpcLog' = rpcLog \o SubSeq(GatherCalls, 1, n)
    /\ hpc' = "exit_err"
    /\ UNCHANGED <<helperRest, imported, out, marker, markerWrites, genVars, notHelper>>

\* if let Some(since) = since_timestamp
GenGatherIncremental ==
    /\ hpc = "gather"
    /\ since_timestamp # None
    /\ LET since == Get(since_timestamp)
           page_ids == RecentPageIds(since, namespace)
           media_ids == RecentMediaIds(since, namespace)
       IN  \E failing \in SUBSET (Keys(page_ids, FALSE) \cup Keys(media_ids, TRUE)) :
              LET revs == IncrementalRevisions(page_ids, FALSE, since, failing)
                          \o IncrementalRevisions(media_ids, TRUE, since, failing)
              IN  IF revs = << >>
                  THEN ImportReturn(None)
                  ELSE /\ all_revisions' = revs
                       /\ warned' = failing
                       /\ hpc' = "limit"
                       /\ UNCHANGED <<since_timestamp, parent_sha, timestamps, ti, ri,
                                      blobs, deleted_paths, mark, last_commit_mark,
                                      commit_count, latest_timestamp,
                                      imported, marker, markerWrites>>
    /\ rpcLog' = rpcLog \o GatherCalls
    /\ UNCHANGED <<helperRest, out, notHelper>>

\* else: full fetch
GenGatherFull ==
    /\ hpc = "gather"
    /\ since_timestamp = None
    /\ \E failing \in SUBSET (Keys(FullPageIds, FALSE) \cup Keys(FullMediaIds, TRUE)) :
          /\ all_revisions' = FullPageRevisions(pageList, namespace, failing)
                              \o FullMediaRevisions(mediaList, namespace, failing)
          /\ warned' = failing
    /\ hpc' = "limit"
    /\ rpcLog' = rpcLog \o GatherCalls
    /\ UNCHANGED <<since_timestamp, parent_sha, timestamps, ti, ri, blobs, deleted_paths,
                   mark, last_commit_mark, commit_count, latest_timestamp,
                   imported, marker, markerWrites, helperRest, out, notHelper>>

\* depth limit, sort by version, grouping by timestamp, the loop's locals
GenLimitAndSort ==
    /\ hpc = "limit"
    /\ \E order \in Orders({all_revisions[i].id : i \in 1..Len(all_revisions)}) :
          LET limited == IF depth # None
                         THEN LimitDepth(all_revisions, order, Get(depth))
                         ELSE all_revisions
              sorted == SortByVersion(limited)
          IN  IF sorted = << >>
              THEN ImportReturn(None)
              ELSE /\ all_revisions' = sorted
                   /\ timestamps' = Timestamps(sorted)
                   /\ mark' = 1
                   /\ last_commit_mark' = None
                   /\ commit_count' = 0
                   /\ latest_timestamp' = 0
                   /\ ti' = 1
                   /\ ri' = 1
                   /\ blobs' = << >>
                   /\ deleted_paths' = << >>
                   /\ hpc' = "emit"
                   /\ UNCHANGED <<since_timestamp, parent_sha, warned, imported,
                                  marker, markerWrites>>
    /\ UNCHANGED <<helperRest, out, rpcLog, notHelper>>

\* for rev in revs
InBucket ==
    /\ hpc = "emit"
    /\ ti <= Len(timestamps)
    /\ ri <= Len(Bucket(timestamps[ti]))

CurRev == Bucket(timestamps[ti])[ri]

PathOf(rev) ==
    IF rev.is_media THEN media_id_to_path(rev.id, namespace)
    ELSE page_id_to_path(rev.id, namespace, Extension)

\* rev.revision_type == "D"
GenDelete ==
    /\ InBucket
    /\ CurRev.revision_type = "D"
    /\ deleted_paths' = Append(deleted_paths, PathOf(CurRev))
    /\ ri' = ri + 1
    /\ UNCHANGED <<since_timestamp, parent_sha, all_revisions, timestamps, ti, blobs,
                   mark, last_commit_mark, commit_count, latest_timestamp, warned,
                   hpc, imported, helperRest, out, rpcLog, marker, markerWrites, notHelper>>

\* get_attachment_version(id, version) / get_page_version(id, version)
ContentCall(rev) == Rpc(IF rev.is_media THEN "getMedia" ELSE "getPage", <<rev.id, rev.version>>)

\* blobs.push((path, mark)) after mark += 1
PushedMarkAfter(blob_mark, mark_after) == mark_after

\* blobs.push((path, blob_mark))
PushedMark(blob_mark, mark_after) == blob_mark

\* content_result is Ok(data)
GenFetchOk ==
    /\ InBucket
    /\ CurRev.revision_type # "D"
    /\ rpcLog' = Append(rpcLog, ContentCall(CurRev))
    /\ out' = Append(out, BlobRecord(mark))
    /\ mark' = mark + 1
    /\ blobs' = Append(blobs, <<PathOf(CurRev), PushedMark(mark, mark + 1)>>)
    /\ ri' = ri + 1
    /\ UNCHANGED <<since_timestamp, parent_sha, all_revisions, timestamps, ti,
                   deleted_paths, last_commit_mark, commit_count, latest_timestamp,
                   warned,
                   hpc, imported, helperRest, marker, markerWrites, notHelper>>

\* content_result is Err
GenFetchFails ==
    /\ InBucket
    /\ CurRev.revision_type # "D"
    /\ rpcLog' = Append(rpcLog, ContentCall(CurRev))
    /\ ri' = ri + 1
    /\ UNCHANGED <<since_timestamp, parent_sha, all_revisions, timestamps, ti, blobs,
                   deleted_paths, mark, last_commit_mark, commit_count, latest_timestamp,
                   warned,
                   hpc, imported, helperRest, out, marker, markerWrites, notHelper>>

EmptyBucketBlobsOnly(bs, ds) == bs = << >>

\* blobs.is_empty() && deleted_paths.is_empty()
EmptyBucket(bs, ds) == bs = << >> /\ ds = << >>

BucketDone ==
    /\ hpc = "emit"
    /\ ti <= Len(timestamps)
    /\ ri > Len(Bucket(timestamps[ti]))

\* blobs.is_empty() && deleted_paths.is_empty(): continue
GenSkipBucket ==
    /\ BucketDone
    /\ EmptyBucket(blobs, deleted_paths)
    /\ ti' = ti + 1
    /\ ri' = 1
    /\ UNCHANGED <<since_timestamp, parent_sha, all_revisions, timestamps, blobs,
                   deleted_paths, mark, last_commit_mark, commit_count, latest_timestamp,
                   warned,
                   hpc, imported, helperRest, out, rpcLog, marker, markerWrites, notHelper>>

Max(a, b) == IF a >= b THEN a ELSE b

\* Write commit
GenCommit ==
    /\ BucketDone
    /\ ~EmptyBucket(blobs, deleted_paths)
    /\ out' = Append(out, CommitRecord(mark, timestamps[ti],
                                       FromLine(last_commit_mark, parent_sha),
                                       ModifyOps(blobs) \o DeleteOps(deleted_paths)))
    /\ mark' = mark + 1
    /\ last_commit_mark' = Some(mark)
    /\ commit_count' = commit_count + 1
    /\ latest_timestamp' = Max(latest_timestamp, timestamps[ti])
    /\ blobs' = << >>
    /\ deleted_paths' = << >>
    /\ ti' = ti + 1
    /\ ri' = 1
    /\ UNCHANGED <<since_timestamp, parent_sha, all_revisions, timestamps, warned,
                   hpc, imported, helperRest, rpcLog, marker, markerWrites, notHelper>>

\* Ok(if latest_timestamp > 0 { Some(latest_timestamp) } else { None })
LatestRevision == IF latest_timestamp > 0 THEN Some(latest_timestamp) ELSE None

\* the loop over timestamps is over: generate returns, import finishes
GenReturn ==
    /\ hpc = "emit"
    /\ ti > Len(timestamps)
    /\ ImportReturn(LatestRevision)
    /\ UNCHANGED <<helperRest, out, rpcLog, notHelper>>

Helper ==
    \/ CmdCapabilities
    \/ CmdListNoMarker
    \/ CmdListRpcFails
    \/ CmdList
    \/ CmdOptionVerbosity
    \/ CmdOptionDepth
    \/ CmdOptionUnsupported
    \/ CmdImport
    \/ CmdImportAgain
    \/ CmdExport
    \/ CmdEmpty
    \/ CmdUnknown
    \/ Eof
    \/ GenGatherFails
    \/ GenGatherIncremental
    \/ GenGatherFull
    \/ GenLimitAndSort
    \/ GenDelete
    \/ GenFetchOk
    \/ GenFetchFails
    \/ GenSkipBucket
    \/ GenCommit
    \/ GenReturn

\* ------------------------------------------------------------------------
\* Wikis for import
\* ------------------------------------------------------------------------

Str_ni == <<"n", ":", "i">>

Version(version, revision_type) == [version |-> version, revision_type |-> revision_type]

Item(listed, revision, versions) ==
    [listed |-> listed, revision |-> revision, versions |-> versions]

Absent == Item(FALSE, 0, << >>)

\* page a (outside namespace n)
States_a ==
    { Absent,
      Item(TRUE, 1, <<Version(1, "C")>>),
      Item(TRUE, 2, <<Version(2, "E"), Version(1, "C")>>) }

\* page n:a
States_na ==
    { Absent,
      Item(TRUE, 2, <<Version(2, "C")>>),
      Item(FALSE, 0, <<Version(2, "D"), Version(1, "C")>>) }

\* media n:i; a row of core.listMedia without "rev" has revision 0
States_ni ==
    { Absent,
      Item(TRUE, 0, << >>),
      Item(TRUE, 2, <<Version(2, "E"), Version(1, "C")>>) }

Row(id, item) == [id |-> id, revision |-> item.revision]

\* the rows of an inventory, in any order
Rows(S, item) ==
    { [i \in 1..Len(o) |-> Row(o[i], item[o[i]])] : o \in Orders({x \in S : item[x].listed}) }

\* the changes of the items S at one version, by id
SortDedupChanges(S, item, version) ==
    LET ids == SortDedup({id \in S : \E i \in 1..Len(item[id].versions) :
                                        item[id].versions[i].version = version})
    IN  [i \in 1..Len(ids) |-> [id |-> ids[i], version |-> version]]

\* the change log of the items S, oldest first
RECURSIVE ChangeLog(_, _, _)
ChangeLog(S, item, version) ==
    IF version > 2 THEN << >>
    ELSE SortDedupChanges(S, item, version) \o ChangeLog(S, item, version + 1)

ProcessIdleInit ==
    /\ records = << >>
    /\ input = << >>
    /\ pos = 1
    /\ target_ref = << >>
    /\ readAt = << >>
    /\ xpc = "idle"
    /\ repo = << >>
    /\ dry_run = FALSE
    /\ ProcessLocalsInit

\* main before its first read_line: RemoteHelper::new returned, nothing
\* imported, no option set
HelperStartInit ==
    /\ hpc = "idle"
    /\ cmds = << >>
    /\ in_import_batch = FALSE
    /\ imported = FALSE
    /\ depth = None
    /\ out = << >>
    /\ list_query = "none"
    /\ since_timestamp = None
    /\ parent_sha = None
    /\ all_revisions = << >>
    /\ timestamps = << >>
    /\ ti = 0
    /\ ri = 0
    /\ blobs = << >>
    /\ deleted_paths = << >>
    /\ mark = 0
    /\ last_commit_mark = None
    /\ commit_count = 0
    /\ latest_timestamp = 0
    /\ warned = {}

\* A helper session over many wikis; stdin carries commands only
InitHelper ==
    /\ \E a \in States_a, na \in States_na, ni \in States_ni :
          LET pages == (Str_a :> a) @@ (Str_na :> na)
              media == (Str_ni :> ni)
          IN  /\ pageList \in Rows({Str_a, Str_na}, pages)
              /\ mediaList \in Rows({Str_ni}, media)
              /\ hist = (<<FALSE, Str_a>> :> a.versions) @@ (<<FALSE, Str_na>> :> na.versions)
                        @@ (<<TRUE, Str_ni>> :> ni.versions)
              /\ changes = ChangeLog({Str_a, Str_na}, pages, 1)
              /\ mediaChanges = ChangeLog({Str_ni}, media, 1)
    /\ now = 2
    /\ foreign = {}
    /\ marker \in {None, Some(1)}
    /\ wikiRef \in {None, Some("sha")}
    /\ namespace \in Namespaces
    /\ VerbosityInit(None)
    /\ HelperStartInit
    /\ ProcessIdleInit
    /\ FacadeIdleInit
    /\ PathIdleInit

SpecHelper == InitHelper /\ [][Helper]_vars

\* ------------------------------------------------------------------------
\* A whole helper process: commands, then at most one export
\* ------------------------------------------------------------------------

Session ==
    \/ Helper
    \/ Process
    \/ ExportReplyOk
    \/ ExportReplyNothing
    \/ ExportFails

\* stdin after the export line, and the local repository
SessionStdin(rs, commits_ahead, dry) ==
    /\ records = rs[1]
    /\ input = SubSeq(StreamBytes(rs[1]), 1, Len(StreamBytes(rs[1])) - rs[2])
    /\ pos = 1
    /\ target_ref = << >>
    /\ readAt = << >>
    /\ xpc = "idle"
    /\ repo = commits_ahead
    /\ dry_run = dry
    /\ VerbosityInit(None)
    /\ ProcessLocalsInit

\* The push of one commit to main that modifies a.md
OnePush == <<<<CommitRec(RefsHeadsMain), [k |-> "done", text |-> << >>]>>, 0>>

\* Either a wiki with content and one plain push waiting on stdin, or an
\* empty wiki and any of the pushes
InitSession ==
    /\ \/ /\ \E a \in States_a, na \in States_na, ni \in States_ni :
                LET pages == (Str_a :> a) @@ (Str_na :> na)
                    media == (Str_ni :> ni)
                IN  /\ pageList \in Rows({Str_a, Str_na}, pages)
                    /\ mediaList \in Rows({Str_ni}, media)
                    /\ hist = (<<FALSE, Str_a>> :> a.versions)
                              @@ (<<FALSE, Str_na>> :> na.versions)
                              @@ (<<TRUE, Str_ni>> :> ni.versions)
                    /\ changes = ChangeLog({Str_a, Str_na}, pages, 1)
                    /\ mediaChanges = ChangeLog({Str_ni}, media, 1)
          /\ SessionStdin(OnePush, <<<<DiffLine("M", Path_a)>>>>, FALSE)
          /\ wikiRef \in {None, Some("sha")}
       \/ /\ pageList = << >>
          /\ mediaList = << >>
          /\ hist = [k \in (BOOLEAN \X (ChangeIds \cup {Str_ni})) |-> << >>]
          /\ changes \in ChangeLogs(1, 1, 2)
          /\ mediaChanges = << >>
          /\ \E rs \in PushStreams, commits_ahead \in SeqsUpTo(DiffOutputs, 1),
                dry \in BOOLEAN :
                SessionStdin(rs, commits_ahead, dry)
          /\ wikiRef = Some("sha")
    /\ now = 2
    /\ foreign = {}
    /\ marker \in {None, Some(1)}
    /\ namespace \in Namespaces
    /\ HelperStartInit
    /\ FacadeIdleInit
    /\ PathIdleInit

SpecSession == InitSession /\ [][Session]_vars

\* ------------------------------------------------------------------------
\* The path mapping by itself: import's id -> path, export's path -> id
\* ------------------------------------------------------------------------

MaxItems == 2

\* Ids of pages and media files: plain, the namespace n itself, inside n,
\* the namespace n inside n, and names that end in the page extension
PathIds ==
    { Str_a, Str_n, Str_na, <<"n", ":", "n">>,
      <<"a", ".", "m", "d">>, <<"n", ":", "a", ".", "m", "d">> }

\* generate's namespace filters (fast_import.rs:91-97, 193-197, 235-239)
Accepts(item, ns) ==
    IF item.is_media THEN MediaInFilter(item.id, ns) ELSE PageInFilter(item.id, ns)

\* generate: the path of the item's blob and file op
ImportMapsPath ==
    /\ Len(paths) < Len(items)
    /\ LET item == items[Len(paths) + 1]
       IN  paths' = Append(paths, IF item.is_media
                                  THEN media_id_to_path(item.id, namespace)
                                  ELSE page_id_to_path(item.id, namespace, Extension))
    /\ UNCHANGED <<items, descs, drainVars, xpc, wikiVars, rpcLog, vcsVars, applyVars,
                   paramVars, error, inventoryVars, helperVars, genVars, facadeVars>>

\* process, Phase 3: what a modified file at that path is taken for
ExportReadsPath ==
    /\ Len(descs) < Len(paths)
    /\ descs' = Append(descs, ItemDesc(DiffLine("M", paths[Len(descs) + 1]), namespace))
    /\ UNCHANGED <<items, paths, drainVars, xpc, wikiVars, rpcLog, vcsVars, applyVars,
                   paramVars, error, inventoryVars, helperVars, genVars, facadeVars>>

PathMapping == ImportMapsPath \/ ExportReadsPath

InitPaths ==
    /\ namespace \in Namespaces
    /\ items \in { s \in SeqsUpTo([is_media : BOOLEAN, id : PathIds], MaxItems) :
                      \A i \in 1..Len(s) : Accepts(s[i], namespace) }
    /\ paths = << >>
    /\ descs = << >>
    /\ FacadeIdleInit
    /\ pageList = << >>
    /\ mediaList = << >>
    /\ hist = << >>
    /\ changes = << >>
    /\ mediaChanges = << >>
    /\ now = 0
    /\ foreign = {}
    /\ marker = None
    /\ wikiRef = None
    /\ HelperStartInit
    /\ records = << >>
    /\ input = << >>
    /\ pos = 1
    /\ target_ref = << >>
    /\ readAt = << >>
    /\ xpc = "idle"
    /\ repo = << >>
    /\ dry_run = FALSE
    /\ VerbosityInit(None)
    /\ ProcessLocalsInit

SpecPaths == InitPaths /\ [][PathMapping]_vars

\* ------------------------------------------------------------------------
\* Options by themselves: the environment, then option commands
\* ------------------------------------------------------------------------

\* DOKUWIKI_VERBOSE: unset, 0, 1, not a number, the largest u8
EnvValues ==
    { None, Some(<<"0">>), Some(<<"1">>), Some(<<"x">>), Some(<<"2", "5", "5">>) }

\* Verbosity::from_env in a build with overflow checks: `l + 1` panics and
\* the process is over before a command is read
FromEnvOverflows ==
    /\ hpc = "idle"
    /\ cmds = << >>
    /\ env_verbose # None
    /\ ParseU8(Get(env_verbose)) = <<TRUE, 255>>
    /\ hpc' = "exit_err"
    /\ UNCHANGED <<cmds, in_import_batch, imported, depth, level, wikiRef, out,
                   list_query, rpcLog, marker, markerWrites, genVars, notHelper>>

Options ==
    \/ FromEnvOverflows
    \/ CmdOptionVerbosity
    \/ CmdOptionDepth
    \/ CmdOptionUnsupported

InitOptions ==
    /\ \E env \in EnvValues : VerbosityInit(env)
    /\ pageList = << >>
    /\ mediaList = << >>
    /\ hist = << >>
    /\ changes = << >>
    /\ mediaChanges = << >>
    /\ now = 0
    /\ foreign = {}
    /\ marker = None
    /\ wikiRef = None
    /\ namespace = None
    /\ HelperStartInit
    /\ ProcessIdleInit
    /\ FacadeIdleInit
    /\ PathIdleInit

SpecOptions == InitOptions /\ [][Options]_vars

\* ------------------------------------------------------------------------
\* generate from the depth limit on: the revisions are gathered
\* ------------------------------------------------------------------------

\* The items of the wiki: the page a, and a page and a media file that are
\* both called n:i
DepthItems == {<<FALSE, Str_a>>, <<FALSE, Str_ni>>, <<TRUE, Str_ni>>}

\* Histories as the wiki returns them, newest first
DepthHistories ==
    { << >>,
      <<Version(1, "C")>>,
      <<Version(3, "E")>>,
      <<Version(2, "E"), Version(1, "C")>>,
      <<Version(3, "D"), Version(2, "E"), Version(1, "C")>> }

DepthValues == {1, 2}

LimitAndEmit ==
    \/ GenLimitAndSort
    \/ GenDelete
    \/ GenFetchOk
    \/ GenFetchFails
    \/ GenSkipBucket
    \/ GenCommit
    \/ GenReturn

\* generate, full mode, after the histories of the three items were fetched
InitDepth ==
    /\ hist \in [DepthItems -> DepthHistories]
    /\ all_revisions = Revisions(Str_a, hist[<<FALSE, Str_a>>], FALSE)
                       \o Revisions(Str_ni, hist[<<FALSE, Str_ni>>], FALSE)
                       \o Revisions(Str_ni, hist[<<TRUE, Str_ni>>], TRUE)
    /\ \E d \in DepthValues :
          /\ depth = Some(d)
          /\ cmds = <<Command("option", "depth", <<Digits[d + 1]>>),
                      Command("import", "", << >>)>>
          /\ out = <<TextLine("ok")>>
    /\ hpc = "limit"
    /\ in_import_batch = TRUE
    /\ imported = FALSE
    /\ list_query = "none"
    /\ since_timestamp = None
    /\ parent_sha \in {None, Some("sha")}
    /\ timestamps = << >>
    /\ ti = 0
    /\ ri = 0
    /\ blobs = << >>
    /\ deleted_paths = << >>
    /\ mark = 0
    /\ last_commit_mark = None
    /\ commit_count = 0
    /\ latest_timestamp = 0
    /\ warned = {}
    /\ pageList = << >>
    /\ mediaList = << >>
    /\ changes = << >>
    /\ mediaChanges = << >>
    /\ now = 3
    /\ foreign = {}
    /\ marker = None
    /\ wikiRef = parent_sha
    /\ namespace = None
    /\ VerbosityInit(None)
    /\ ProcessIdleInit
    /\ FacadeIdleInit
    /\ PathIdleInit

SpecDepth == InitDepth /\ [][LimitAndEmit]_vars

\* ------------------------------------------------------------------------
\* DokuWikiClient::call: one facade call, with re-authentication
\* ------------------------------------------------------------------------

MaxCalls == 2

\* Methods the session of SpecCall issues
CallMethods == {"core.getPage", "core.savePage"}

\* Error messages of call_inner, as the words they are made of
ErrorMessages ==
    { <<"HTTP error", "401">>,
      <<"API error", "Unauthorized">>,
      <<"API error", "not logged in">>,
      <<"HTTP error", "500">>,
      <<"HTTP request failed">> }

\* err_str.contains("401") || contains("Unauthorized") || contains("not logged in")
AuthSignal(err_str) ==
    \E word \in {"401", "Unauthorized", "not logged in"} : Contains(err_str, word)

Ok == << >>

\* One request posted by call_inner for the facade call number `call`, and
\* its outcome (Ok, or the error message)
Request(call, method, outcome) ==
    [call |-> call, id |-> request_id, m |-> method, outcome |-> outcome]

\* The facade call in progress
CurCall == Len(results) + 1

CallOf(call) == SelectSeq(sent, LAMBDA r : r.call = call /\ r.m # "core.login")

\* The steps of the current call, as call and reauthenticate take them
Did(steps) == effects' = effects \o [i \in 1..Len(steps) |-> [call |-> CurCall, e |-> steps[i]]]

restOfCall == <<drainVars, xpc, wikiVars, rpcLog, vcsVars, applyVars, paramVars, error,
                inventoryVars, helperVars, genVars, pathVars>>

\* call_inner(method) is Ok(value)
CallOk ==
    /\ cpc = "idle"
    /\ Len(results) < MaxCalls
    /\ \E method \in CallMethods :
          sent' = Append(sent, Request(CurCall, method, Ok))
    /\ request_id' = request_id + 1
    /\ results' = Append(results, Ok)
    /\ Did(<<"post">>)
    /\ UNCHANGED <<cpc, jar, cookie_file, restOfCall>>

\* call_inner(method) is Err(e), e without an authorization signal
CallFails ==
    /\ cpc = "idle"
    /\ Len(results) < MaxCalls
    /\ \E method \in CallMethods, e \in ErrorMessages :
          /\ ~AuthSignal(e)
          /\ sent' = Append(sent, Request(CurCall, method, e))
          /\ results' = Append(results, e)
    /\ request_id' = request_id + 1
    /\ Did(<<"post">>)
    /\ UNCHANGED <<cpc, jar, cookie_file, restOfCall>>

\* call_inner(method) is Err(e), e with an authorization signal;
\* reauthenticate removes the cookie file and empties the jar
CallUnauthorized ==
    /\ cpc = "idle"
    /\ Len(results) < MaxCalls
    /\ \E method \in CallMethods, e \in ErrorMessages :
          /\ AuthSignal(e)
          /\ sent' = Append(sent, Request(CurCall, method, e))
    /\ request_id' = request_id + 1
    /\ cookie_file' = FALSE
    /\ jar' = "empty"
    /\ cpc' = "reauth"
    /\ Did((IF cookie_file THEN <<"post", "remove_file", "clear_jar">>
                          ELSE <<"post", "clear_jar">>))
    /\ UNCHANGED <<results, restOfCall>>

\* reauthenticate: get_credentials is Err
ReauthNoCredentials ==
    /\ cpc = "reauth"
    /\ results' = Append(results, <<"git credential failed">>)
    /\ cpc' = "idle"
    /\ Did(<<"credentials_err">>)
    /\ UNCHANGED <<sent, request_id, jar, cookie_file, restOfCall>>

ReauthLoginFailsRestores ==
    /\ cpc = "reauth"
    /\ \E e \in ErrorMessages \cup {<<"Login failed">>} :
          /\ sent' = Append(sent, Request(CurCall, "core.login", e))
          /\ results' = Append(results, e)
    /\ request_id' = request_id + 1
    /\ cpc' = "idle"
    /\ Did(<<"credentials", "login_err">>)
    /\ jar' = "session"
    /\ cookie_file' = TRUE
    /\ UNCHANGED restOfCall

\* reauthenticate: login is Err (call_inner failed, or the wiki said false)
ReauthLoginFails ==
    /\ cpc = "reauth"
    /\ \E e \in ErrorMessages \cup {<<"Login failed">>} :
          /\ sent' = Append(sent, Request(CurCall, "core.login", e))
          /\ results' = Append(results, e)
    /\ request_id' = request_id + 1
    /\ cpc' = "idle"
    /\ Did(<<"credentials", "login_err">>)
    /\ jar' \in {jar, "unauthenticated"}
    /\ UNCHANGED <<cookie_file, restOfCall>>

AfterSaveIgnored(saved) == "retry"

\* self.save_cookies()?: reauthenticate and call return the error
AfterSave(saved) == IF saved THEN "retry" ELSE "idle"

\* reauthenticate: login is Ok, save_cookies is Err
ReauthSaveFails ==
    /\ cpc = "reauth"
    /\ sent' = Append(sent, Request(CurCall, "core.login", Ok))
    /\ request_id' = request_id + 1
    /\ jar' = "session"
    /\ results' = IF AfterSave(FALSE) = "idle"
                  THEN Append(results, <<"Failed to save cookies">>)
                  ELSE results
    /\ cpc' = AfterSave(FALSE)
    /\ Did(<<"credentials", "login", "save_err">>)
    /\ UNCHANGED <<cookie_file, restOfCall>>

\* reauthenticate is Ok(())
ReauthOk ==
    /\ cpc = "reauth"
    /\ sent' = Append(sent, Request(CurCall, "core.login", Ok))
    /\ request_id' = request_id + 1
    /\ jar' = "session"
    /\ cookie_file' = TRUE
    /\ cpc' = AfterSave(TRUE)
    /\ Did(<<"credentials", "login", "save">>)
    /\ UNCHANGED <<results, restOfCall>>

\* self.call(method, params) in place of self.call_inner(method, params)
AfterRetryAgain(e) == IF AuthSignal(e) THEN "reauth" ELSE "idle"

\* self.call_inner(method, params): whatever it gives is call's result
AfterRetry(e) == "idle"

\* the retried call_inner(method) is Ok(value)
RetryOk ==
    /\ cpc = "retry"
    /\ sent' = Append(sent, Request(CurCall, CallOf(CurCall)[1].m, Ok))
    /\ request_id' = request_id + 1
    /\ results' = Append(results, Ok)
    /\ cpc' = "idle"
    /\ Did(<<"post">>)
    /\ UNCHANGED <<jar, cookie_file, restOfCall>>

\* the retried call_inner(method) is Err(e)
RetryFails ==
    /\ cpc = "retry"
    /\ \E e \in ErrorMessages :
          /\ sent' = Append(sent, Request(CurCall, CallOf(CurCall)[1].m, e))
          /\ cpc' = AfterRetry(e)
          /\ results' = IF AfterRetry(e) = "idle" THEN Append(results, e) ELSE results
    /\ request_id' = request_id + 1
    /\ Did(<<"post">>)
    /\ UNCHANGED <<jar, cookie_file, restOfCall>>

Call ==
    \/ CallOk
    \/ CallFails
    \/ CallUnauthorized
    \/ ReauthNoCredentials
    \/ ReauthLoginFails
    \/ ReauthSaveFails
    \/ ReauthOk
    \/ RetryOk
    \/ RetryFails

\* A session of facade calls, the helper otherwise at rest
InitCall ==
    /\ FacadeIdleInit
    /\ PathIdleInit
    /\ pageList = << >>
    /\ mediaList = << >>
    /\ hist = << >>
    /\ changes = << >>
    /\ mediaChanges = << >>
    /\ now = 0
    /\ foreign = {}
    /\ marker = None
    /\ wikiRef = None
    /\ namespace = None
    /\ VerbosityInit(None)
    /\ HelperStartInit
    /\ ProcessIdleInit

SpecCall == InitCall /\ [][Call]_vars

\* ------------------------------------------------------------------------
\* Phase 1 against the stream's record structure
\* ------------------------------------------------------------------------

IsPrefixOf(s, t) == Len(s) <= Len(t) /\ SubSeq(t, 1, Len(s)) = s

\* Byte offset at which each record's header line starts.
RECURSIVE RecordStarts(_, _)
RecordStarts(rs, at) ==
    IF rs = << >> THEN << >>
    ELSE <<at>> \o RecordStarts(Tail(rs), at + Len(RecordBytes(rs[1])))

\* The records up to and including the first done record.
RECURSIVE UpToDone(_)
UpToDone(rs) ==
    IF rs = << >> THEN << >>
    ELSE IF rs[1].k = "done" THEN <<rs[1]>>
    ELSE <<rs[1]>> \o UpToDone(Tail(rs))

\* The header lines a decoder must read: those of the records before the
\* end of the stream (done, or the end of the bytes that arrived).
TrueStarts ==
    SelectSeq(RecordStarts(UpToDone(records), 1), LAMBDA p : p <= Len(input))

\* The ref of the last commit record among the first n records, as it
\* arrived: the bytes of the input after that record's `commit `, up to the
\* end of its line or of the input.
RECURSIVE LastCommitRef(_, _)
LastCommitRef(rs, n) ==
    IF n = 0 THEN << >>
    ELSE LET at == RecordStarts(rs, 1)[n] + Len(CommitPrefix)
             end == at + Len(rs[n].text) - 1
         IN  IF rs[n].k = "commit" /\ at <= Len(input)
             THEN SubSeq(input, at, IF end <= Len(input) THEN end ELSE Len(input))
             ELSE LastCommitRef(rs, n - 1)

\* C1: every line the decoder reads starts where a record's header line
\* starts: after a `data <len>` header exactly <len> bytes are consumed, so
\* payload bytes (newlines, `done`, `commit <ref>`) are never read as lines,
\* the next line read is the text that follows the payload, and the ref
\* remembered is the ref of the last commit record read, as it arrived.
C1_ByteExactFraming ==
    /\ IsPrefixOf(readAt, TrueStarts)
    /\ target_ref = LastCommitRef(records, Len(readAt))
    /\ xpc = "drained" => readAt = TrueStarts

\* C1 witness: the stream was drained past a payload that spells `done`
\* and holds a newline, and the commit line after it was read.
C1_Witness ==
    /\ xpc = "drained"
    /\ \E i \in 1..Len(readAt) - 1 :
          /\ records[i].k = "data"
          /\ records[i].text = DoneLine \o <<"\n">>
          /\ records[i + 1].k = "commit"
          /\ target_ref = records[i + 1].text

\* ------------------------------------------------------------------------
\* Phase 2 against the namespace subtree
\* ------------------------------------------------------------------------

\* The colon-separated segments of an id
RECURSIVE Segments(_)
Segments(id) ==
    IF \A i \in 1..Len(id) : id[i] # ":" THEN <<id>>
    ELSE LET c == CHOOSE i \in 1..Len(id) :
                    id[i] = ":" /\ \A j \in 1..i - 1 : id[j] # ":"
         IN  <<SubSeq(id, 1, c - 1)>> \o Segments(DropFirst(id, c))

\* An item is in the subtree of ns when ns's segments lead its own.
InSubtree(id, ns) == ns = None \/ IsPrefixOf(Segments(Get(ns)), Segments(id))

\* Page changes of the log that are newer than the marker and in the subtree
NewerInSubtree ==
    { i \in 1..Len(changes) :
        changes[i].version >= Get(marker) + 1 /\ InSubtree(changes[i].id, namespace) }

MutationLog == SelectSeq(rpcLog, LAMBDA c : c.m \in Mutations)

\* C2: with a marker M stored, the gate fails with the "Remote has N new
\* change(s)" error exactly when the wiki reports a page change in the
\* namespace subtree with version >= M+1 (N of them); when it fails this
\* way no mutation has been issued and the marker has not been written.
C2_DivergenceGate ==
    /\ (xpc = "revlist" /\ marker # None) => NewerInSubtree = {}
    /\ (xpc = "err" /\ Get(error).kind = "remote_changed") =>
          /\ marker # None
          /\ NewerInSubtree # {}
          /\ Get(error).n = Cardinality(NewerInSubtree)
          /\ MutationLog = << >>
          /\ markerWrites = << >>

\* C2 witness: marker 1, one change at exactly 1 and one at 2, both in the
\* subtree: the gate failed and counted the one at 2 alone.
C2_Witness ==
    /\ xpc = "err"
    /\ Get(error).kind = "remote_changed"
    /\ Get(error).n = 1
    /\ marker = Some(1)
    /\ \E i, j \in 1..Len(changes) :
          /\ changes[i].version = 1 /\ InSubtree(changes[i].id, namespace)
          /\ changes[j].version = 2 /\ InSubtree(changes[j].id, namespace)

\* C9: a push whose ref is under refs/tags/ or is not refs/heads/main ends in
\* the ref error, before any git subcommand (the ancestor check), before any
\* facade call and without a marker write.
C9_RefPolicy ==
    (/\ xpc \notin {"drain", "drained", "io_error"}
     /\ target_ref # << >>
     /\ (StartsWith(target_ref, RefsTags) \/ target_ref # RefsHeadsMain))
    => /\ xpc = "err"
       /\ Get(error).kind \in {"tags", "branch"}
       /\ StartsWith(target_ref, RefsTags) => Get(error).kind = "tags"
       /\ gitLog = << >>
       /\ rpcLog = << >>
       /\ markerWrites = << >>

\* C9 witness: a push to refs/heads/d was refused.
C9_Witness ==
    /\ xpc = "err"
    /\ target_ref = RefsHeadsDev
    /\ Get(error).kind = "branch"

\* ------------------------------------------------------------------------
\* Phase 4 against the pushed range
\* ------------------------------------------------------------------------

\* The item a logged mutation call applied
DescOfCall(c) == Get(ItemDesc(repo[c.commit][c.line], namespace))

\* Items whose apply succeeded before the failing call (the last of the log)
AppliedEarlier == {DescOfCall(MutationLog[i]) : i \in 1..Len(MutationLog) - 1}

Collected == Range(CollectItems(<< >>, RevListReverse(repo), namespace))

PushFailed == xpc = "err" /\ Get(error).kind = "push"

\* C7: when an apply fails, the error names the failing item, lists under
\* `pushed` exactly the items applied earlier in this push, and lists under
\* `pending` every item not yet applied, the failing item included.
C7_PushErrorLists ==
    PushFailed =>
        /\ Get(error).failed = DescOfCall(MutationLog[Len(MutationLog)])
        /\ Range(Get(error).pushed) = AppliedEarlier
        /\ Get(error).failed \in Range(Get(error).pending)
        /\ Collected \ AppliedEarlier \subseteq Range(Get(error).pending)

\* C8: mutation calls are issued in the order of the pushed range, oldest
\* commit first, and within a commit in the order of its diff lines.
C8_ApplyOrder ==
    \A i, j \in 1..Len(MutationLog) :
        i < j =>
            \/ MutationLog[i].commit < MutationLog[j].commit
            \/ /\ MutationLog[i].commit = MutationLog[j].commit
               /\ MutationLog[i].line < MutationLog[j].line

\* C8 witness: a media call, then a page call of the same commit, then a
\* call of a later commit.
C8_Witness ==
    /\ Len(MutationLog) >= 3
    /\ MutationLog[1].m = "deleteMedia"
    /\ MutationLog[2].m = "savePage"
    /\ MutationLog[2].commit = MutationLog[1].commit
    /\ MutationLog[3].commit > MutationLog[2].commit

\* ------------------------------------------------------------------------
\* Import and list against the stream and the marker
\* ------------------------------------------------------------------------

\* positions of the commit records of stdout
CommitsAt == {i \in 1..Len(out) : out[i].t = "commit"}

\* C3: every `M 100644 :m <path>` of a commit of the import stream is
\* preceded in the stream by a blob record with mark m.
C3_BlobBeforeReference ==
    \A i \in CommitsAt :
        \A k \in 1..Len(out[i].ops) :
            out[i].ops[k][1] = "M" =>
                \E j \in 1..(i - 1) : out[j].t = "blob" /\ out[j].mark = out[i].ops[k][2]

\* C3 witness: an import finished whose second commit modifies a file.
C3_Witness ==
    /\ imported
    /\ \E i, j \in CommitsAt :
          /\ i < j
          /\ \E k \in 1..Len(out[j].ops) : out[j].ops[k][1] = "M"

\* C4: the commits of the import stream carry strictly ascending
\* timestamps: each version bucket gives one commit, oldest first, whatever
\* the order of the inventories and histories and whether or not a depth
\* limit applies.
C4_AscendingCommits ==
    \A i, j \in CommitsAt : i < j => out[i].ts < out[j].ts

\* C4 witness: a depth-limited import of two listed pages, the inventory
\* naming the newer one first, finished with two commits.
C4_Witness ==
    /\ imported
    /\ depth # None
    /\ Cardinality(CommitsAt) = 2
    /\ Len(pageList) = 2
    /\ pageList[1].revision > pageList[2].revision

\* C5: after an import that emitted at least one commit, the marker holds
\* the greatest timestamp over the emitted commits, versions equal to 0
\* included.
C5_MarkerIsMaxVersion ==
    (imported /\ CommitsAt # {}) =>
        marker = Some(CHOOSE t \in {out[i].ts : i \in CommitsAt} :
                         \A i \in CommitsAt : out[i].ts <= t)

\* C6: an import command read when imported is set writes nothing to
\* stdout, issues no facade call, leaves the marker alone and returns at
\* once.
C6_SingleShot ==
    [][(imported /\ cmds' # cmds /\ Last(cmds').k = "import") =>
          /\ out' = out
          /\ rpcLog' = rpcLog
          /\ markerWrites' = markerWrites
          /\ marker' = marker
          /\ hpc' = "idle"]_vars

\* C6 witness: two import commands were handled, the first emitted a commit
\* and wrote the marker.
C6_Witness ==
    /\ Len(cmds) = 2
    /\ cmds[1].k = "import"
    /\ cmds[2].k = "import"
    /\ hpc = "idle"
    /\ CommitsAt # {}
    /\ markerWrites # << >>

\* C10: list answers `<sha> refs/heads/main` exactly when the marker is
\* set, the recent-changes query returned an empty list and the wiki-ref
\* has a tip; otherwise, a failed query included, it answers
\* `@refs/heads/main HEAD` and `? refs/heads/main`; a blank line ends both.
C10_ListReply ==
    (hpc = "idle" /\ cmds # << >> /\ Last(cmds).k = "list") =>
        IF marker # None /\ list_query = "empty" /\ wikiRef # None
        THEN EndsWith(out, ShaLine \o <<TextLine("")>>)
        ELSE EndsWith(out, ForceImport \o <<TextLine("")>>)

\* ------------------------------------------------------------------------
\* The facade's retry budget
\* ------------------------------------------------------------------------

LoginsOf(call) == SelectSeq(sent, LAMBDA r : r.call = call /\ r.m = "core.login")

\* C11: for every facade call the original RPC is posted at most twice, a
\* second time only after a failure carrying an authorization signal and a
\* login that succeeded; at most one login is made per call; and whatever
\* the retried RPC gives, a second failure included, is what the call
\* returns.
C11_RetryOncePerCall ==
    \A call \in 1..MaxCalls :
        /\ Len(CallOf(call)) <= 2
        /\ Len(LoginsOf(call)) <= 1
        /\ Len(CallOf(call)) = 2 =>
              /\ CallOf(call)[1].outcome \in
                    {e \in ErrorMessages : \E w \in {"401", "Unauthorized", "not logged in"} :
                                              \E i \in 1..Len(e) : e[i] = w}
              /\ CallOf(call)[2].m = CallOf(call)[1].m
              /\ Len(LoginsOf(call)) = 1
              /\ LoginsOf(call)[1].outcome = Ok
              /\ CallOf(call)[1].id < LoginsOf(call)[1].id
              /\ LoginsOf(call)[1].id < CallOf(call)[2].id
              /\ call <= Len(results) => results[call] = CallOf(call)[2].outcome

\* C11 witness: two calls of one session each retried once; the first
\* call's retry failed with 401 again and that error was returned.
C11_Witness ==
    /\ Len(results) = 2
    /\ Len(CallOf(1)) = 2
    /\ Len(CallOf(2)) = 2
    /\ CallOf(1)[2].outcome = <<"HTTP error", "401">>
    /\ results[1] = <<"HTTP error", "401">>
    /\ results[2] = Ok

\* ------------------------------------------------------------------------
\* Export against the marker
\* ------------------------------------------------------------------------

OwnEdits ==
    {c \in Range(changes) \cup Range(mediaChanges) : c.version > now - Len(MutationLog)}

\* C13: after an export that returned success, not in dry-run, having
\* applied a mutation, the marker is at least the version of every edit the
\* push made, the next export's gate finds no change to report and the next
\* list finds no new change.
C13_OwnEditsNotRemote ==
    (xpc = "ok" /\ ~dry_run /\ MutationLog # << >>) =>
        /\ marker # None
        /\ \A c \in OwnEdits : c.version <= Get(marker)
        /\ RelevantChanges(get_recent_changes(GateSince(Get(marker))), namespace) = << >>
        /\ get_recent_changes(Get(marker) + 1) = << >>

\* The marker writes of one side, in the order they were made
WritesBy(side) == SelectSeq(markerWrites, LAMBDA w : w.by = side)

C14_State ==
    /\ Len(WritesBy("import")) <= 1
    /\ Len(WritesBy("export")) <= 1
    /\ hpc \in {"gather", "limit", "emit"} => WritesBy("import") = << >>
    /\ WritesBy("import") # << >> => imported
    /\ (hpc = "exit_err" /\ xpc = "idle" /\ ~imported) => markerWrites = << >>
    /\ xpc \in {"err", "io_error"} => WritesBy("export") = << >>

C14_Step ==
    markerWrites' # markerWrites =>
        \/ /\ hpc = "emit"
           /\ ti > Len(timestamps)
           /\ imported'
           /\ out' = out
           /\ Last(markerWrites').by = "import"
        \/ /\ AfterApply
           /\ xpc' = "ok"
           /\ Last(markerWrites').by = "export"

\* C14: within one helper process the marker is written at most once by
\* import and at most once by export; import writes it only in the step in
\* which generate has returned success with every bucket emitted, export only
\* in the step that ends a successful apply; an import that ended in error and
\* an export that ended in error wrote no marker.
C14_MarkerWrittenOncePerSide == [](C14_State) /\ [][C14_Step]_vars

\* C14 witness: import and then export of one process each wrote the marker.
C14_Witness ==
    /\ hpc = "exit_ok"
    /\ Len(markerWrites) = 2
    /\ markerWrites[1].by = "import"
    /\ markerWrites[2].by = "export"

\* The revision of the current import that a file op of the commit of
\* bucket `timestamp` was written for
RevisionOf(op, timestamp) ==
    CHOOSE r \in Range(Bucket(timestamp)) : PathOf(r) = op[3]

\* C15: within every commit the import has emitted, two file ops of the same
\* kind that follow one another are in ascending id order (the weakest reading
\* of "(kind, id) sorted": pages and media files, modifications and deletions
\* are only compared among themselves).
C15_OpsSortedByKindAndId ==
    hpc = "emit" =>
        \A i \in 1..Len(out) :
            out[i].t = "commit" =>
                \A k \in 1..(Len(out[i].ops) - 1) :
                    LET this == RevisionOf(out[i].ops[k], out[i].ts)
                        next == RevisionOf(out[i].ops[k + 1], out[i].ts)
                    IN  (/\ this.is_media = next.is_media
                         /\ out[i].ops[k][1] = out[i].ops[k + 1][1])
                            => StrLess(this.id, next.id)

\* C16: every item the import accepts is read back by the export, from the
\* path the import gave it, as the same kind and the same id, and two
\* different (kind, id) pairs never get the same path.
C16_PathRoundTrip ==
    /\ \A i \in 1..Len(descs) :
          /\ descs[i] # None
          /\ Get(descs[i]).kind = (IF items[i].is_media THEN "media" ELSE "page")
          /\ Get(descs[i]).id = items[i].id
    /\ \A i, j \in 1..Len(paths) : paths[i] = paths[j] => items[i] = items[j]

\* The content fetches of the import: one per blob it emitted or skipped
ContentFetches == SelectSeq(rpcLog, LAMBDA c : c.m \in {"getPage", "getMedia"})

\* C17: with a namespace filter set, every revision the import gathered,
\* every content fetch behind a blob and every file op of an emitted commit
\* is for an id inside the namespace's subtree, and so is every mutation the
\* export sent to the wiki.
C17_NothingOutsideNamespace ==
    namespace # None =>
        /\ \A r \in Range(all_revisions) : InSubtree(r.id, namespace)
        /\ \A c \in Range(ContentFetches) : InSubtree(c.arg[1], namespace)
        /\ hpc = "emit" =>
              \A c \in Range(out) :
                  c.t = "commit" =>
                      \A k \in 1..Len(c.ops) :
                          \E r \in Range(Bucket(c.ts)) :
                              /\ PathOf(r) = c.ops[k][3]
                              /\ InSubtree(r.id, namespace)
        /\ \A c \in Range(MutationLog) : InSubtree(c.arg, namespace)

\* C17 witness: under the namespace n, with the page a outside it listed by
\* the wiki, an import emitted a commit and the export that followed sent a
\* mutation.
C17_Witness ==
    /\ namespace = Some(Str_n)
    /\ \E i \in 1..Len(pageList) : pageList[i].id = Str_a
    /\ \E c \in Range(out) : c.t = "commit" /\ c.ops # << >>
    /\ ContentFetches # << >>
    /\ MutationLog # << >>

ImportSeen == \E i \in 1..Len(cmds) : cmds[i].k = "import"

Exited == hpc \in {"exit_ok", "exit_err"}

C18_Step ==
    /\ (hpc = "idle" /\ cmds' = Append(cmds, Command("empty", "", << >>))) =>
          hpc' = IF ImportSeen THEN "exit_ok" ELSE "idle"
    /\ (hpc = "idle" /\ cmds' = Append(cmds, Command("export", "", << >>))) =>
          hpc' = "export"
    /\ hpc = "export" => (cmds' = cmds /\ hpc' \in {"export", "exit_ok", "exit_err"})
    /\ (hpc = "idle" /\ cmds' = cmds) => hpc' \in {"idle", "exit_ok"}
    /\ ~Exited

\* process has returned to helper.export
ProcessReturned == hpc = "export" /\ xpc \in {"ok", "nothing", "err", "io_error"}

\* C18: a blank line ends the process exactly when an import command was
\* read before it and otherwise leaves the helper reading commands; after an
\* export command no other command is read, and once that export has
\* returned the one step left ends the process; at the end of input the
\* process ends; an ended process takes no step.
C18_SessionTermination ==
    /\ [][C18_Step]_vars
    /\ [](ProcessReturned => ENABLED (ExportReplyOk \/ ExportReplyNothing \/ ExportFails))
    /\ [][ProcessReturned => Exited']_vars

\* C18 witness: the blank line after an import ended the process.
C18_Witness ==
    /\ hpc = "exit_ok"
    /\ Len(cmds) = 2
    /\ cmds[1].k = "import"
    /\ cmds[2].k = "empty"

OkLines == {i \in 1..Len(out) : out[i].t = "ok"}

C19_State ==
    /\ \A i \in OkLines :
          /\ hpc = "exit_ok"
          /\ xpc \in {"ok", "nothing"}
          /\ xpc = "ok" => out[i].ref = target_ref
          /\ i = Len(out) - 1
          /\ out[Len(out)] = TextLine("")
    /\ xpc \in {"err", "io_error"} =>
          /\ OkLines = {}
          /\ hpc \in {"export", "exit_err"}
    /\ (hpc = "exit_ok" /\ xpc = "ok") => OkLines # {}

\* C19: `ok <ref>` is on stdout only once process has returned success, it
\* names the ref process returned and a blank line follows it as the last
\* thing written; when process returned an error, at whichever gate or
\* apply, stdout holds no `ok` line and the process ends with an error.
C19_OkOnlyAfterSuccess ==
    /\ [](C19_State)
    /\ [][(xpc \in {"err", "io_error"} /\ hpc' # hpc) => (hpc' = "exit_err" /\ out' = out)]_vars

\* C19 witness: a push that sent a mutation was answered `ok refs/heads/main`.
C19_Witness ==
    /\ hpc = "exit_ok"
    /\ xpc = "ok"
    /\ MutationLog # << >>
    /\ Len(out) >= 2
    /\ out[Len(out) - 1] = OkLine(RefsHeadsMain)

\* No commit line is in the stream up to where the drain stops
NoCommitLine == \A r \in Range(UpToDone(records)) : r.k # "commit"

\* C20: when the stream holds no commit line, the export ends its drain with
\* `nothing to push` returned as success unless reading the stream itself
\* failed, and in every case without a refusal of the ref, without a
\* command run on the local repository, without a call to the wiki and
\* without a marker write.
C20_NothingToPushDoesNothing ==
    NoCommitLine =>
        /\ xpc \in {"drain", "drained", "io_error", "nothing"}
        /\ target_ref = << >>
        /\ gitLog = << >>
        /\ rpcLog = << >>
        /\ markerWrites = << >>
        /\ xpc = "nothing" => error = None

\* C20 witness: a stream of a data record and one other line, ended by the
\* end of input, was drained and answered `nothing to push`.
C20_Witness ==
    /\ NoCommitLine
    /\ xpc = "nothing"
    /\ Len(records) = 2
    /\ Len(readAt) = 2
    /\ marker # None
    /\ changes # << >>

\* The number a one-digit option value spells, None for any other value
OneDigit(value) ==
    IF Len(value) = 1 /\ \E d \in 1..10 : Digits[d] = value[1]
    THEN Some((CHOOSE d \in 1..10 : Digits[d] = value[1]) - 1)
    ELSE None

\* The depth the option commands read so far ask for
RECURSIVE DepthAsked(_)
DepthAsked(cs) ==
    IF cs = << >> THEN None
    ELSE IF Last(cs).k = "option" /\ Last(cs).name = "depth" /\ OneDigit(Last(cs).value) # None
    THEN OneDigit(Last(cs).value)
    ELSE DepthAsked(Front(cs))

C21_Step ==
    \A name \in {"verbosity", "depth", "progress"}, value \in OptionValues :
        cmds' = Append(cmds, Command("option", name, value)) =>
            /\ out' = Append(out, TextLine(IF name \in {"verbosity", "depth"}
                                           THEN "ok" ELSE "unsupported"))
            /\ name = "progress" =>
                  UNCHANGED <<hpc, in_import_batch, imported, depth, level, wikiRef,
                              list_query, rpcLog, marker, markerWrites, genVars, notHelper>>
            /\ (name = "depth" /\ OneDigit(value) # None) => depth' = OneDigit(value)

\* C21: an option command is answered by one line, `ok` for verbosity and
\* depth and `unsupported` for another name; an unsupported option changes
\* nothing else; a depth option with a number sets the depth, and the depth
\* an import runs with is the one the last such option asked for.
C21_OptionReplies ==
    /\ [][C21_Step]_vars
    /\ [](depth = DepthAsked(cmds))

\* C21 witness: an import is emitting under the depth an option set.
C21_Witness ==
    /\ hpc = "emit"
    /\ cmds = <<Command("option", "depth", <<"1">>), Command("import", "", << >>)>>
    /\ depth = Some(1)
    /\ out[1] = TextLine("ok")

\* The levels the verbosity options read so far ask for
LevelsAsked ==
    { Get(OneDigit(cmds[i].value)) :
        i \in { j \in 1..Len(cmds) : /\ cmds[j].k = "option"
                                     /\ cmds[j].name = "verbosity"
                                     /\ OneDigit(cmds[j].value) # None } }

\* C22: the level is the largest of the level the environment gave at
\* initialization and the levels the verbosity options asked for, and no
\* step lowers it.
C22_LevelOnlyRises ==
    /\ [](\A l \in LevelsAsked \cup {from_env(env_verbose)} : l <= level)
    /\ [](level \in LevelsAsked \cup {from_env(env_verbose)})
    /\ [][level' >= level]_vars

\* C22 witness: over the floor 1 of the environment, verbosity 2 and then
\* verbosity 1 were asked for and the level is 2.
C22_Witness ==
    /\ env_verbose = Some(<<"0">>)
    /\ cmds = <<Command("option", "verbosity", <<"2">>),
                Command("option", "verbosity", <<"1">>)>>
    /\ level = 2

\* C23: while an incremental import runs from the marker `since`, every
\* revision it retained and every commit it emitted is newer than `since`,
\* although the recent-changes queries it sent ask for changes from `since`
\* on.
C23_IncrementalNewerOnly ==
    (hpc \in {"limit", "emit"} /\ since_timestamp # None) =>
        /\ \A r \in Range(all_revisions) : r.version > Get(since_timestamp)
        /\ \A c \in Range(out) : c.t = "commit" => c.ts > Get(since_timestamp)
        /\ \E i \in 1..Len(rpcLog) :
              /\ rpcLog[i].m = "getRecentPageChanges"
              /\ rpcLog[i].arg = Get(since_timestamp)

\* C23 witness: from the marker 1 the query returned the change of page a at
\* version 1, page a has the versions 1 and 2, and the commit of version 2
\* was emitted.
C23_Witness ==
    /\ hpc = "emit"
    /\ since_timestamp = Some(1)
    /\ \E c \in Range(get_recent_changes(1)) : c.id = Str_a /\ c.version = 1
    /\ \E v \in Range(hist[<<FALSE, Str_a>>]) : v.version = 1
    /\ \E c \in Range(out) : c.t = "commit" /\ c.ts = 2

\* The versions of the n newest entries of a history
NewestVersions(versions, n) ==
    {v \in {versions[i].version : i \in 1..Len(versions)} :
        Cardinality({j \in 1..Len(versions) : versions[j].version > v}) < n}

\* The item a path of the import stands for
ItemAtPath(path) ==
    CHOOSE k \in DepthItems :
        path = (IF k[1] THEN media_id_to_path(k[2], namespace)
                ELSE page_id_to_path(k[2], namespace, Extension))

\* The versions of an item that a commit of the stream holds an op for
EmittedVersions(k) ==
    { out[i].ts : i \in { j \in 1..Len(out) :
                            /\ out[j].t = "commit"
                            /\ \E n \in 1..Len(out[j].ops) :
                                  ItemAtPath(out[j].ops[n][3]) = k } }

\* C24: under the depth d, the revisions kept for an item are its d newest
\* (all of them when it has fewer), and every op the stream holds for the
\* item is for one of them.
C24_DepthKeepsNewest ==
    hpc = "emit" =>
        \A k \in DepthItems :
            /\ { r.version : r \in { x \in Range(all_revisions) :
                                        x.is_media = k[1] /\ x.id = k[2] } }
                  = NewestVersions(hist[k], Get(depth))
            /\ EmittedVersions(k) \subseteq NewestVersions(hist[k], Get(depth))

\* C25: a dry-run export sends no savePage, saveMedia or deleteMedia, reads
\* no file content, writes no marker and leaves the wiki as it was; what it
\* reports is one `Would ...` line for each item of the pushed commits, and
\* an export that is not a dry run writes no such line.
C25_DryRunChangesNothing ==
    /\ [](dry_run => /\ MutationLog = << >>
                     /\ markerWrites = << >>
                     /\ \A i \in 1..Len(gitLog) : gitLog[i] # "show")
    /\ []((dry_run /\ xpc = "ok") => Range(would) = Collected)
    /\ [](~dry_run => would = << >>)
    /\ [][dry_run => UNCHANGED <<changes, mediaChanges, now, marker>>]_vars

\* C25 witness: a dry run over a push of two items, with a marker stored,
\* returned success.
C25_Witness ==
    /\ dry_run
    /\ xpc = "ok"
    /\ Len(would) >= 2
    /\ would[1] # would[2]
    /\ marker = Some(1)

\* C26: once an export has failed during apply with items already pushed,
\* the divergence gate of the next export over the same marker and the same
\* wiki finds no change to refuse the push for.
C26_RetryPassesGate ==
    (PushFailed /\ pushed_items # << >> /\ marker # None) =>
        RelevantChanges(get_recent_changes(GateSince(Get(marker))), namespace) = << >>

\* ---- C27 ----
EffectsOf(call) == SelectSeq(effects, LAMBDA r : r.call = call)

StepNames(call) == [i \in 1..Len(EffectsOf(call)) |-> EffectsOf(call)[i].e]

ReauthSteps == <<"clear_jar", "credentials", "login", "save">>

\* the RPC is resent at step i only right after the four steps, in that order,
\* which themselves come right after the first send and the removal of the file
ResentInOrder(steps, i) ==
    /\ i >= 6
    /\ SubSeq(steps, i - 4, i - 1) = ReauthSteps
    /\ \/ i = 6 /\ steps[1] = "post"
       \/ i = 7 /\ steps[1] = "post" /\ steps[2] = "remove_file"

RevisionsOfItem(k) ==
    SelectSeq(all_revisions, LAMBDA r : r.is_media = k[1] /\ r.id = k[2])

FullItems == Keys(FullPageIds, FALSE) \cup Keys(FullMediaIds, TRUE)

\* C28: after the gathering, every item whose history call failed (full or
\* incremental mode), and in full mode every inventoried item whose history
\* is empty, has exactly one revision in all_revisions.
C28_NoItemLost ==
    hpc = "limit" =>
        /\ \A k \in warned : Len(RevisionsOfItem(k)) = 1
        /\ since_timestamp = None =>
              \A k \in FullItems : hist[k] = << >> => Len(RevisionsOfItem(k)) = 1

\* ---- C29 ----
\* what one pass over a revision of the bucket, or the end of the bucket, does
C29_Step ==
    /\ (InBucket /\ CurRev.revision_type = "D") =>
          /\ deleted_paths' = Append(deleted_paths, PathOf(CurRev))
          /\ UNCHANGED <<rpcLog, out, blobs, mark>>
    /\ (InBucket /\ CurRev.revision_type # "D") =>
          /\ rpcLog' = Append(rpcLog, ContentCall(CurRev))
          /\ \/ /\ out' = Append(out, BlobRecord(mark))
                /\ blobs' = Append(blobs, <<PathOf(CurRev), mark>>)
                /\ mark' = mark + 1
             \/ UNCHANGED <<out, blobs, mark>>
          /\ UNCHANGED <<deleted_paths, hpc, ti>>
          /\ ri' = ri + 1
    /\ BucketDone =>
          IF blobs = << >> /\ deleted_paths = << >>
          THEN UNCHANGED <<out, mark, last_commit_mark, commit_count>>
          ELSE /\ Len(out') = Len(out) + 1
               /\ out'[Len(out')].t = "commit"
               /\ out'[Len(out')].mark = mark
               /\ out'[Len(out')].ts = timestamps[ti]
               /\ out'[Len(out')].ops = ModifyOps(blobs) \o DeleteOps(deleted_paths)
               /\ mark' = mark + 1
               /\ commit_count' = commit_count + 1

CommitsOut == SelectSeq(out, LAMBDA r : r.t = "commit")

MarkedOut == SelectSeq(out, LAMBDA r : r.t \in {"blob", "commit"})

\* C29: a bucket is committed exactly when it yields an op; a delete revision
\* gives a D op with no content call and no blob, another revision a blob and
\* an M op only when its content call succeeds, a failed content call is
\* passed over with the import going on, and a bucket without ops writes
\* nothing and takes no mark.
C29_CommitIffOps ==
    /\ [][C29_Step]_vars
    /\ [](\A i \in 1..Len(CommitsOut) : CommitsOut[i].ops # << >>)
    /\ [](\A i \in 1..Len(MarkedOut) : MarkedOut[i].mark = i)

C29_Witness ==
    /\ hpc = "emit"
    /\ ti > Len(timestamps)
    /\ timestamps = <<1, 2, 3>>
    /\ Len(CommitsOut) = 2
    /\ CommitsOut[1].ts = 1
    /\ CommitsOut[1].ops[1][1] = "M"
    /\ CommitsOut[2].ts = 3
    /\ Len(CommitsOut[2].ops) = 1
    /\ CommitsOut[2].ops[1][1] = "D"

\* ---- C30 ----
\* C30: the commits on stdout form one chain: the first carries `from <sha>`
\* of the parent ref when there is one and no from line otherwise, every
\* later one `from :<k>` with k the mark of the commit written just before
\* it, whatever buckets were dropped in between.
C30_LinearChain ==
    /\ CommitsOut # << >> =>
          CommitsOut[1].from = (IF wikiRef # None THEN <<"sha", 0>> ELSE << >>)
    /\ \A j \in 2..Len(CommitsOut) :
          CommitsOut[j].from = <<"mark", CommitsOut[j - 1].mark>>

C30_Witness ==
    /\ wikiRef # None
    /\ timestamps = <<1, 2, 3>>
    /\ [j \in 1..Len(CommitsOut) |-> CommitsOut[j].ts] = <<1, 3>>
    /\ CommitsOut[2].from = <<"mark", CommitsOut[1].mark>>
    /\ \E i \in 1..Len(rpcLog) : rpcLog[i].m \in {"getPage", "getMedia"}
                                    /\ rpcLog[i].arg[2] = 2

\* ---- C31 ----
NoDuplicates(s) == \A i, j \in 1..Len(s) : i # j => s[i] # s[j]

\* C31: all through Phase 4 pushed and pending hold no item twice, share no
\* item, together hold exactly the items collected in Phase 3, and an item
\* only ever leaves pending and only ever enters pushed.
C31_Bookkeeping ==
    /\ [](xpc = "apply" =>
            /\ NoDuplicates(pending_items)
            /\ NoDuplicates(pushed_items)
            /\ Range(pending_items) \cap Range(pushed_items) = {}
            /\ Range(pending_items) \cup Range(pushed_items) = Collected)
    /\ [][xpc = "apply" =>
            /\ Range(pending_items') \subseteq Range(pending_items)
            /\ Range(pushed_items) \subseteq Range(pushed_items')]_vars

\* an item was applied twice, with another item still pending
C31_Witness ==
    /\ xpc = "apply"
    /\ pending_items # << >>
    /\ \E i, j \in 1..Len(MutationLog) :
          /\ i < j
          /\ MutationLog[i].commit < MutationLog[j].commit
          /\ MutationLog[i].arg = MutationLog[j].arg
          /\ MutationLog[i].m = MutationLog[j].m
    /\ Len(pushed_items) = 1

\* ---- C32 ----
\* C32: when an export has returned Ok, every in-namespace page change made
\* by another writer during the export has a version above the marker.
C32_NoRemoteRevisionSkipped ==
    (xpc = "ok" /\ ~dry_run /\ marker # None) =>
        \A c \in foreign : InSubtree(c.id, namespace) => c.version > Get(marker)

\* ---- C33 ----
AppliedItems == {DescOfCall(MutationLog[i]) : i \in 1..Len(MutationLog)}

\* C33: when an export that is not a dry run has returned Ok, pending is
\* empty, pushed holds the collected items, and each of them was applied by
\* a mutation call.
C33_SuccessMeansAllApplied ==
    (xpc = "ok" /\ ~dry_run) =>
        /\ pending_items = << >>
        /\ Range(pushed_items) = Collected
        /\ AppliedItems = Collected

\* ---- C34 ----
\* the only changes newer than the marker are media changes
MediaOnlyNewer ==
    /\ marker # None
    /\ \A i \in 1..Len(changes) : changes[i].version <= Get(marker)
    /\ \E i \in 1..Len(mediaChanges) : mediaChanges[i].version > Get(marker)

ListRead ==
    /\ hpc = "idle"
    /\ Len(cmds') = Len(cmds) + 1
    /\ cmds'[Len(cmds')].k = "list"

C34_Step ==
    /\ (MediaOnlyNewer /\ wikiRef # None /\ ListRead) =>
          out' = out \o ShaLine \o <<TextLine("")>>
    /\ (MediaOnlyNewer /\ xpc = "gate") =>
          \/ xpc' = "revlist"
          \/ xpc' = "err" /\ error' = Err("rpc")

\* C34: list and the gate of export ask for page changes only: with media
\* changes alone above the marker, list answers with the sha of the wiki ref
\* and the gate lets the export through.
C34_MediaChangesNotConsulted ==
    /\ [][C34_Step]_vars
    /\ []((xpc = "err" /\ Get(error).kind = "remote_changed") => ~MediaOnlyNewer)

C34_Witness ==
    /\ MediaOnlyNewer
    /\ xpc = "revlist"
    /\ cmds[1].k = "list"
    /\ out = ShaLine \o <<TextLine("")>>

\* ---- C35 ----
\* the ref of the last commit line of the stream up to `done`
LastRef == LastCommitRef(UpToDone(records), Len(UpToDone(records)))

Drained == xpc \notin {"idle", "drain", "io_error"}

RefRefused == xpc = "err" /\ Get(error).kind \in {"tags", "branch"}

\* C35: the ref the gates judge and `ok <ref>` reports is the ref of the
\* last commit line of the drained stream, whatever refs earlier commit
\* lines named.
C35_LastCommitWins ==
    Drained =>
        /\ target_ref = LastRef
        /\ LastRef = RefsHeadsMain => ~RefRefused
        /\ (xpc # "drained" /\ LastRef # << >> /\ LastRef # RefsHeadsMain) => RefRefused
        /\ \A i \in OkLines : xpc = "ok" => out[i].ref = LastRef

C35_Witness ==
    /\ records = <<CommitRec(RefsTagsV), CommitRec(RefsHeadsMain)>>
    /\ xpc = "ok"
    /\ hpc = "exit_ok"
    /\ \E i \in OkLines : out[i].ref = RefsHeadsMain

\* ---- C36 ----
IsContentCall(c) == c.m \in {"getPage", "getMedia"}

PathOfCall(c) ==
    IF c.m = "getMedia" THEN media_id_to_path(c.arg[1], namespace)
    ELSE page_id_to_path(c.arg[1], namespace, Extension)

\* the revision a content call asked for is on stdout as an M op of the
\* commit at its version
EmittedContent(c) ==
    \E j \in 1..Len(out) :
        /\ out[j].t = "commit"
        /\ out[j].ts = c.arg[2]
        /\ \E k \in 1..Len(out[j].ops) :
              out[j].ops[k][1] = "M" /\ out[j].ops[k][3] = PathOfCall(c)

\* C36: after a successful import every non-delete revision it gathered with
\* a version at or below the stored marker has its content on stdout.
C36_CoveredUpToMarker ==
    (hpc = "idle" /\ imported /\ marker # None) =>
        \A i \in 1..Len(rpcLog) :
            (IsContentCall(rpcLog[i]) /\ rpcLog[i].arg[2] <= Get(marker)) =>
                EmittedContent(rpcLog[i])

\* ---- C37 ----
LastStep(call) == StepNames(call)[Len(StepNames(call))]

ReauthFailed(call) ==
    /\ call <= Len(results)
    /\ StepNames(call) # << >>
    /\ LastStep(call) \in {"credentials_err", "login_err"}

C38_MarksUniqueAndOrdered ==
    /\ \A i \in 1..Len(MarkedOut) : MarkedOut[i].mark = i
    /\ \A j \in 1..Len(out) :
          (out[j].t = "commit" /\ out[j].from # << >> /\ out[j].from[1] = "mark") =>
              /\ \E i \in 1..(j - 1) : out[i].t = "commit" /\ out[i].mark = out[j].from[2]
              /\ \A i \in 1..Len(out) : out[i].t = "blob" => out[i].mark # out[j].from[2]

C38_Witness ==
    /\ [i \in 1..Len(MarkedOut) |-> MarkedOut[i].t] = <<"blob", "commit", "commit">>
    /\ MarkedOut[3].from = <<"mark", 2>>
    /\ MarkedOut[3].ops[1][1] = "D"

\* ---- C39 ----
\* C39: with DOKUWIKI_VERBOSE = n, n an 8-bit unsigned integer, the helper
\* starts at level n + 1 and from_env does not overflow.
C39_EnvLevelPlusOne ==
    (env_verbose # None /\ ParseU8(Get(env_verbose))[1] /\ cmds = << >>) =>
        /\ level = ParseU8(Get(env_verbose))[2] + 1
        /\ hpc # "exit_err"

====
